---- MODULE Spec2Model ----
(***************************************************************************)
(* Perimeter safety state machine of UnifiedAudioRadio                     *)
(* (src/UnifiedAudioRadio/unifiedaudioradio.py).                           *)
(*                                                                         *)
(* Granularity: every command handler, together with the access gate that  *)
(* precedes it, is one action.  The automatic panic is the one place where *)
(* handlers wait for each other (asyncio.Lock _autopanic_lock), so a       *)
(* trigger is a small process: it fires, waits for the mutex, runs the     *)
(* critical section, and releases the mutex after its notifications.       *)
(* Unset store fields (None) are the string "none".                        *)
(***************************************************************************)
EXTENDS Integers, Sequences, FiniteSets, TLC

\* ------------------------------------------------------------------------
\* Universes of the model
\* ------------------------------------------------------------------------
NONE == "none"

\* Guild G1 has text channels T1, T2 and voice channels V1, V2; guild G2 has
\* text channel T3.  Users: "owner" (the bot owner), "dj", "other".
\* members that set-protected-user is called with
Members == {"dj"}

\* stations the directory lookup can return (name, stream URL)
StationN1 == [name |-> "N1", stream_url |-> "U1"]

StationN2 == [name |-> "N2", stream_url |-> "U2"]

\* typed texts of a play command that look like video-platform content
PlayTexts == {"Q1", "QB"}

\* the characters of a text: a text is a sequence of one-character strings
\* what each token stands for: the typed text of a play command, or the
\* resolved metadata of the current track (NONE: no metadata)
TextOf(q) ==
  IF q = "Q1" THEN <<"s", "n", "a">>
  ELSE IF q = "QB" THEN <<"a", "N", "S">>
  ELSE <<>>

\* resolved metadata of the current track the watchdog can find
TrackTexts == {NONE, "Q1", "QB"}

\* block_tags_csv, a registered default never written: here two terms, one of
\* them in capitals, padded with blanks, and an empty third entry
block_tags_csv == <<"N", "s", ",", " ", "a", "b", " ", ",", " ">>

\* number of tripwire handlers that can be in flight at once
MaxTripwire == 1

Tripwires == 1..MaxTripwire

\* the watchdog loop is one task: its ticks never overlap
WatchdogTask == 0

Tasks == Tripwires \cup {WatchdogTask}

\* the handler of the tripwire in the specifications that follow one handler
RaceTask == 1

\* an invocation context is a record [author, guild, channel, voice]: who typed
\* the command, where, and the voice channel the author is connected to
\* (NONE: not in voice)

\* arguments of rrunlock: the five modes it knows and one it does not
UnlockModes == {"", "home", "resume", "full", "radio", "other"}

AUDIO_SUMMON_ALIASES == {"summon"}

AUDIO_DISCONNECT_ALIASES == {"disconnect"}

AUDIO_STOP_ALIASES == {"stop"}

AUDIO_PLAY_ALIASES == {"play"}

AudioNames == AUDIO_SUMMON_ALIASES \cup AUDIO_DISCONNECT_ALIASES \cup AUDIO_STOP_ALIASES \cup AUDIO_PLAY_ALIASES

\* ------------------------------------------------------------------------
\* State
\* ------------------------------------------------------------------------
VARIABLES
  bound, allowed_guild_id, control_text_channel_id, allowed_voice_channel_id, bound_owner_user_id,
  panic_locked, autopanic_enabled, autopanic_reason, suspended, suspend_reason, hard_mode,
  stream_url, station_name,
  last_station_name, last_station_stream_url,
  audio_intent_active, last_youtube_query,
  panic_resume_kind, panic_resume_station_name, panic_resume_station_url, panic_resume_youtube_query,
  dj_user_id,
  stations_cache, grace,
  autopanic_lock, pc, treason, snapping,
  botVc, playing, delivers,
  now, djVoice, settings,
  _dj_in_vc_since_monotonic, _last_sleep_reminder_monotonic, _sleep_reminder_count, _sleep_final_sent,
  _last_reassure_in_vc_ts, _last_reassure_out_vc_ts,
  rpc, unloading, heard,
  last, hist

bindingVars == <<bound, allowed_guild_id, control_text_channel_id, allowed_voice_channel_id,
                 bound_owner_user_id>>

postureVars == <<panic_locked, autopanic_enabled, autopanic_reason, suspended, suspend_reason, hard_mode>>

mediaVars == <<stream_url, station_name, audio_intent_active>>

memoryVars == <<last_station_name, last_station_stream_url, last_youtube_query>>

snapshotVars == <<panic_resume_kind, panic_resume_station_name, panic_resume_station_url, panic_resume_youtube_query>>

localVars == <<stations_cache, grace>>

taskVars == <<autopanic_lock, pc, treason, snapping>>

\* the in-memory timers of the sleep reminder
sleepVars == <<_dj_in_vc_since_monotonic, _last_sleep_reminder_monotonic, _sleep_reminder_count,
               _sleep_final_sent>>

\* the reassurance scheduler: the monotonic clock (seconds), the voice channel
\* of the protected user, the registered intervals, the timers, the position
\* of the loop, whether cog_unload has run, and what the protected user got
loopVars == <<now, djVoice, settings, sleepVars, _last_reassure_in_vc_ts, _last_reassure_out_vc_ts,
              rpc, unloading, heard>>

envVars == <<botVc, playing, delivers, loopVars>>

storeVars == <<bindingVars, postureVars, mediaVars, memoryVars, snapshotVars, dj_user_id>>

vars == <<storeVars, localVars, taskVars, envVars, last, hist>>

\* ------------------------------------------------------------------------
\* State helpers
\* ------------------------------------------------------------------------
RadioActiveOf(url, name) == url # NONE /\ name # NONE

_radio_active == RadioActiveOf(stream_url, station_name)

_audio_intent_active == audio_intent_active

\* an activity test that always answers yes
_any_active_Always == TRUE

_any_active == _radio_active \/ _audio_intent_active \/ playing

_bot_is_home == allowed_voice_channel_id # NONE /\ botVc # NONE /\ botVc = allowed_voice_channel_id

is_owner(user) == user = "owner"

Snapshot == [kind |-> panic_resume_kind, name |-> panic_resume_station_name,
             url |-> panic_resume_station_url, query |-> panic_resume_youtube_query]

NoSnapshot == [kind |-> NONE, name |-> NONE, url |-> NONE, query |-> NONE]

\* a snapshot taken after the media state has been cleared
_snapshot_for_panic_AfterClear == NoSnapshot

\* what _snapshot_for_panic writes, from the store as it is when it runs
_snapshot_for_panic ==
  IF _radio_active
    THEN [kind |-> "radio", name |-> station_name, url |-> stream_url, query |-> NONE]
    ELSE IF (audio_intent_active \/ playing) /\ last_youtube_query # NONE
      THEN [kind |-> "youtube", name |-> NONE, url |-> NONE, query |-> last_youtube_query]
      ELSE NoSnapshot

SetSnapshot(s) ==
  /\ panic_resume_kind' = s.kind
  /\ panic_resume_station_name' = s.name
  /\ panic_resume_station_url' = s.url
  /\ panic_resume_youtube_query' = s.query

_clear_panic_snapshot == SetSnapshot(NoSnapshot)

_clear_radio_state == stream_url' = NONE /\ station_name' = NONE

_clear_audio_intent == audio_intent_active' = FALSE

\* _suspend that drops its reason
_suspend_NoReason(reason) == suspended' = TRUE /\ suspend_reason' = NONE

_suspend(reason) == suspended' = TRUE /\ suspend_reason' = reason

\* an _unsuspend that keeps the reason
_unsuspend_KeepReason == suspended' = FALSE /\ UNCHANGED suspend_reason

_unsuspend == suspended' = FALSE /\ suspend_reason' = NONE

\* ------------------------------------------------------------------------
\* Access gate
\* ------------------------------------------------------------------------
DjCommands == {"djradio", "djyoutube", "imgoing"}

\* a pre-binding allow-list that lets the hard-mode toggle through
prebind_ok_WithHard == {"rrbind", "rrstatus", "rrhard"}

prebind_ok == {"rrbind", "rrstatus"}

\* a bypass set that lets home through from any text channel
bypass_control_WithHome == {"rrcontrol", "rrstatus", "rrpanic", "rrunlock", "rrresume", "rrsuspend",
                            "rrhard", "rrhome"}

bypass_control == {"rrcontrol", "rrstatus", "rrpanic", "rrunlock", "rrresume", "rrsuspend", "rrhard"}

\* recovery allow-lists that let bind, or home, through
panic_ok_WithBind == {"rrstatus", "rrunlock", "rrpanic", "rrcontrol", "rrhard", "rrbind"}

panic_ok_WithHome == {"rrstatus", "rrunlock", "rrpanic", "rrcontrol", "rrhard", "rrhome"}

panic_ok == {"rrstatus", "rrunlock", "rrpanic", "rrcontrol", "rrhard"}

OwnerCommands == {"rrstatus", "rrpanic", "rrsuspend", "rrresume", "rrhard", "rrunlock", "rrbind",
                  "rrsetdj", "rrcontrol", "rrhome", "searchstations", "playstation", "rrrestore",
                  "stopstation"}

Verdict(pass, audits, reply) == [pass |-> pass, audits |-> audits, reply |-> reply]

cog_check(ctx, cmd) ==
  IF cmd \in DjCommands
    THEN IF allowed_guild_id # NONE /\ ctx.guild # allowed_guild_id
           THEN Verdict(FALSE, 0, "")
           ELSE Verdict(dj_user_id # NONE /\ ctx.author = dj_user_id, 0, "")
  ELSE IF ~is_owner(ctx.author)
    THEN Verdict(FALSE, 0, "")
  ELSE IF ~bound
    THEN IF cmd \in prebind_ok THEN Verdict(TRUE, 0, "") ELSE Verdict(FALSE, 0, "Locked. Bind first")
  ELSE IF allowed_guild_id # NONE /\ ctx.guild # allowed_guild_id
    THEN Verdict(FALSE, 1, "")
  ELSE IF control_text_channel_id # NONE /\ ctx.channel # control_text_channel_id /\ cmd \notin bypass_control
    THEN Verdict(FALSE, 1, "")
  ELSE IF panic_locked
    THEN IF cmd \in panic_ok THEN Verdict(TRUE, 0, "") ELSE Verdict(FALSE, 0, "Panic lock is active.")
  ELSE Verdict(TRUE, 0, "")

\* Helpers whose body is "try: ... except Exception: pass": what the caller
\* gets when the delivery works (ok) or fails.  A failure is swallowed.
_set_presence_Raising(ok) == IF ok THEN "ok" ELSE "raised"

_set_presence(ok) == IF ok THEN "ok" ELSE "swallowed"

_audit_security_Raising(ok) == IF ok THEN "ok" ELSE "raised"

_audit_security(ok) == IF ok THEN "ok" ELSE "swallowed"

_notify_control_Raising(ok) == IF ok THEN "ok" ELSE "raised"

_notify_control(ok) == IF ok THEN "ok" ELSE "swallowed"

\* delivers: which of the three deliveries work at the moment
Deliveries == [presence : BOOLEAN, audit : BOOLEAN, notify : BOOLEAN]

AllDelivered == [presence |-> TRUE, audit |-> TRUE, notify |-> TRUE]

\* one of the calls a handler makes outside any try block raised
Escaped(outcomes) == "raised" \in outcomes

\* what the framework gets from cog_check when the audit channel delivers
\* (auditOk) or not: an exception leaving the check is neither answer
GateDecision(ctx, cmd, auditOk) ==
  LET v == cog_check(ctx, cmd) IN
  IF v.audits > 0 /\ _audit_security(auditOk) = "raised" THEN "error"
  ELSE IF v.pass THEN "allow"
  ELSE "deny"

\* "ok", or the way the presence check fails; the wrong channel is the audited one
_require_owner_in_allowed_vc(ctx) ==
  IF allowed_voice_channel_id = NONE THEN "no_voice_lock"
  ELSE IF ctx.voice = NONE THEN "not_in_voice"
  ELSE IF ctx.voice # allowed_voice_channel_id THEN "wrong_vc"
  ELSE "ok"

PresenceAudits(p) == IF p = "wrong_vc" THEN 1 ELSE 0

\* what one handler run leaves for the caller and the log: the reply class, the
\* number of audit events, and the external-player invocations it made
Quiet == [op |-> "", res |-> "", audits |-> 0, calls |-> <<>>]

\* hist.watch names the handlers whose outcome is kept in "last"; any other
\* handler leaves Quiet there, so "last" always describes the latest handler run
Out(op, ctx, res, audits, calls) ==
  IF op \in hist.watch
    THEN [op |-> op, res |-> res, audits |-> audits, calls |-> calls]
    ELSE Quiet

NoCtx == [author |-> "other", guild |-> "G1", channel |-> "T1", voice |-> NONE]

\* a command stopped by the gate: nothing but the reply and the audit event
GateDenied(cmd, ctx) ==
  /\ ~cog_check(ctx, cmd).pass
  /\ last' = Out(cmd, ctx, "gate_denied", cog_check(ctx, cmd).audits, <<>>)
  /\ UNCHANGED <<storeVars, localVars, taskVars, envVars, hist>>

\* a handler that returns early after its reply
Refused(cmd, ctx, res, audits) ==
  /\ last' = Out(cmd, ctx, res, audits, <<>>)
  /\ UNCHANGED <<storeVars, localVars, taskVars, envVars, hist>>

\* ------------------------------------------------------------------------
\* History (bookkeeping of the run, read by the properties only)
\* ------------------------------------------------------------------------
NoEntry == [radio |-> FALSE, name |-> NONE, url |-> NONE, intent |-> FALSE, query |-> NONE]

MediaNow == [radio |-> _radio_active, name |-> station_name, url |-> stream_url,
             intent |-> audio_intent_active, query |-> last_youtube_query]

\* commits: automatic panics committed since panic_locked was last cleared;
\* firstAcq: reason of the first trigger that got the mutex since then (both
\* kept when "autopanic" is watched); entered: the media state at the moment
\* the posture entered Panicked (kept when "entered" is watched); logged: the
\* watchdog caught and logged an error (kept when "watchdog" is watched)
HistInit(watch) ==
  [commits |-> 0, firstAcq |-> NONE, entered |-> NoEntry, logged |-> FALSE, watch |-> watch]

\* panic_locked is cleared: a new round of triggers starts
HistCleared == HistInit(hist.watch)

HistEntered(h) ==
  IF "entered" \notin h.watch THEN NoEntry
  ELSE IF panic_locked THEN h.entered ELSE MediaNow

\* a trigger with "reason" got the mutex and committed the panic, or not
HistAcquired(h, reason, committed) ==
  [h EXCEPT !.commits = IF committed /\ "autopanic" \in h.watch THEN @ + 1 ELSE @,
            !.firstAcq = IF @ = NONE /\ "autopanic" \in h.watch THEN reason ELSE @,
            !.entered = IF committed THEN HistEntered(h) ELSE @]

\* ------------------------------------------------------------------------
\* The reassurance scheduler: clock, settings and what the user has heard
\* ------------------------------------------------------------------------
\* seconds between two ticks of the reassurance scheduler
REASSURE_TICK == 10

\* reading of the monotonic clock when the process starts (any positive value)
BootClock == 100 * REASSURE_TICK

\* the registered defaults of the scheduler's settings (no command writes them)
DefaultSettings ==
  [periodic_reassure_enabled |-> TRUE,
   reassure_interval_in_vc_sec |-> 30 * REASSURE_TICK,
   reassure_interval_out_vc_sec |-> 90 * REASSURE_TICK,
   dj_sleep_reminder_enabled |-> TRUE,
   dj_sleep_after_minutes |-> 180,
   dj_sleep_repeat_minutes |-> 45]

\* what the last tick of the scheduler sent (level 0: no reminder) and the
\* bookkeeping of the protected user's presence session in the monitored
\* channel: joined (clock when the session began, 0 outside a session), k
\* (reminders sent in the session), finals (final messages sent in it), remAt
\* (clock of its last reminder), ack (clock of its last acknowledgment),
\* afterAck (reminders of the session since that acknowledgment), homeSince
\* (the external player has been home since the session began); inAt, inPrev
\* (clock of the last "user present" message and of the one before it),
\* outAt, outPrev (the same for "user elsewhere")
Silence ==
  [level |-> 0, final |-> FALSE, inVc |-> FALSE, outVc |-> FALSE,
   joined |-> 0, k |-> 0, finals |-> 0, remAt |-> 0, ack |-> 0, afterAck |-> 0,
   homeSince |-> FALSE, inAt |-> 0, inPrev |-> 0, outAt |-> 0, outPrev |-> 0]

\* a tick that sends nothing
Quieted(h) == [h EXCEPT !.level = 0, !.final = FALSE, !.inVc = FALSE, !.outVc = FALSE]

\* the session bookkeeping when the protected user moves to voice channel v
SessionAt(h, v) ==
  LET in == v # NONE /\ v = allowed_voice_channel_id IN
  [h EXCEPT !.joined = IF in THEN now ELSE 0, !.homeSince = in /\ botVc = v,
            !.k = 0, !.finals = 0, !.remAt = 0, !.ack = 0, !.afterAck = 0]

\* the scheduler is asleep between two ticks, nothing was sent yet and the
\* protected user is in no voice channel
LoopIdle ==
  /\ now = BootClock
  /\ djVoice = NONE
  /\ settings = DefaultSettings
  /\ _dj_in_vc_since_monotonic = 0
  /\ _last_sleep_reminder_monotonic = 0
  /\ _sleep_reminder_count = 0
  /\ _sleep_final_sent = FALSE
  /\ _last_reassure_in_vc_ts = 0
  /\ _last_reassure_out_vc_ts = 0
  /\ rpc = "sleeping"
  /\ unloading = FALSE
  /\ heard = Silence

\* ------------------------------------------------------------------------
\* Init: the registered defaults of the store and a fresh process
\* ------------------------------------------------------------------------
Registered ==
  /\ bound = FALSE
  /\ allowed_guild_id = NONE
  /\ control_text_channel_id = NONE
  /\ allowed_voice_channel_id = NONE
  /\ bound_owner_user_id = NONE
  /\ panic_locked = TRUE
  /\ autopanic_enabled = TRUE
  /\ autopanic_reason = NONE
  /\ suspended = FALSE
  /\ suspend_reason = NONE
  /\ hard_mode = TRUE
  /\ stream_url = NONE
  /\ station_name = NONE
  /\ last_station_name = NONE
  /\ last_station_stream_url = NONE
  /\ audio_intent_active = FALSE
  /\ last_youtube_query = NONE
  /\ panic_resume_kind = NONE
  /\ panic_resume_station_name = NONE
  /\ panic_resume_station_url = NONE
  /\ panic_resume_youtube_query = NONE
  /\ dj_user_id = NONE
  /\ stations_cache = <<>>
  /\ grace = 0
  /\ autopanic_lock = FALSE
  /\ pc = [t \in Tasks |-> "idle"]
  /\ treason = [t \in Tasks |-> NONE]
  /\ snapping = [t \in Tasks |-> NoSnapshot]
  /\ botVc = NONE
  /\ playing = FALSE
  /\ delivers = AllDelivered
  /\ LoopIdle
  /\ last = Quiet

Init ==
  /\ Registered
  /\ hist = HistInit({"rrbind", "rrhome"})

\* ------------------------------------------------------------------------
\* Voice abstraction
\* ------------------------------------------------------------------------
\* _vc_disconnect: no voice client, a disconnect that works, or one that throws
\* (swallowed by the callers); discOk is the outcome of the disconnect call
_vc_disconnect(discOk) ==
  IF botVc # NONE /\ discOk
    THEN botVc' = NONE /\ playing' = FALSE
    ELSE UNCHANGED <<botVc, playing>>

\* ------------------------------------------------------------------------
\* Posture commands
\* ------------------------------------------------------------------------
rrbind(ctx) ==
  /\ cog_check(ctx, "rrbind").pass
  /\ IF ctx.voice = NONE
       THEN Refused("rrbind", ctx, "join_voice_first", 0)
       ELSE /\ allowed_guild_id' = ctx.guild
            /\ control_text_channel_id' = ctx.channel
            /\ allowed_voice_channel_id' = ctx.voice
            /\ bound_owner_user_id' = ctx.author
            /\ bound' = TRUE
            /\ panic_locked' = FALSE
            /\ autopanic_enabled' = TRUE
            /\ autopanic_reason' = NONE
            /\ _unsuspend
            /\ _clear_radio_state
            /\ _clear_audio_intent
            /\ last' = Out("rrbind", ctx, "ok", 0, <<>>)
            /\ hist' = HistCleared
            /\ UNCHANGED <<hard_mode, memoryVars, snapshotVars, dj_user_id, localVars, taskVars, envVars>>

rrpanic(ctx, discOk) ==
  /\ cog_check(ctx, "rrpanic").pass
  /\ IF ~bound
       THEN Refused("rrpanic", ctx, "not_bound", 0)
       ELSE /\ SetSnapshot(_snapshot_for_panic)
            /\ panic_locked' = TRUE
            /\ autopanic_reason' = "manual"
            /\ _vc_disconnect(discOk)
            /\ _clear_radio_state
            /\ _clear_audio_intent
            /\ last' = Out("rrpanic", ctx,
                           IF Escaped({_set_presence(delivers.presence),
                                       _audit_security(delivers.audit),
                                       _notify_control(delivers.notify)})
                             THEN "raised" ELSE "ok", 1, <<>>)
            /\ hist' = [hist EXCEPT !.entered = HistEntered(hist)]
            /\ UNCHANGED <<bindingVars, autopanic_enabled, suspended, suspend_reason, hard_mode,
                           memoryVars, dj_user_id, localVars, taskVars, delivers, loopVars>>

rrsuspend(ctx, discOk) ==
  /\ cog_check(ctx, "rrsuspend").pass
  /\ LET p == _require_owner_in_allowed_vc(ctx) IN
     IF ~bound
       THEN Refused("rrsuspend", ctx, "not_bound", 0)
     ELSE IF p # "ok"
       THEN Refused("rrsuspend", ctx, p, PresenceAudits(p))
     ELSE IF Escaped({_set_presence(delivers.presence)})
       \* _suspend has written the flags; its presence update ends the handler
       THEN /\ _suspend("manual")
            /\ last' = Out("rrsuspend", ctx, "raised", 0, <<>>)
            /\ UNCHANGED <<bindingVars, panic_locked, autopanic_enabled, autopanic_reason,
                           hard_mode, mediaVars, memoryVars, snapshotVars, dj_user_id, localVars,
                           taskVars, envVars, hist>>
     ELSE /\ _suspend("manual")
          /\ _vc_disconnect(discOk)
          /\ _clear_radio_state
          /\ _clear_audio_intent
          /\ last' = Out("rrsuspend", ctx,
                         IF Escaped({_notify_control(delivers.notify)}) THEN "raised" ELSE "ok",
                         0, <<>>)
          /\ UNCHANGED <<bindingVars, panic_locked, autopanic_enabled, autopanic_reason, hard_mode,
                         memoryVars, snapshotVars, dj_user_id, localVars, taskVars, delivers, loopVars, hist>>

rrresume(ctx) ==
  /\ cog_check(ctx, "rrresume").pass
  /\ LET p == _require_owner_in_allowed_vc(ctx) IN
     IF ~bound
       THEN Refused("rrresume", ctx, "not_bound", 0)
     ELSE IF p # "ok"
       THEN Refused("rrresume", ctx, p, PresenceAudits(p))
     ELSE /\ _unsuspend
          /\ last' = Out("rrresume", ctx, "ok", 0, <<>>)
          /\ UNCHANGED <<bindingVars, panic_locked, autopanic_enabled, autopanic_reason, hard_mode,
                         mediaVars, memoryVars, snapshotVars, dj_user_id, localVars, taskVars,
                         envVars, hist>>

HardModes == {NONE, "on", "off", "other"}

rrhard(ctx, mode) ==
  /\ cog_check(ctx, "rrhard").pass
  /\ hard_mode' = IF mode = "on" THEN TRUE ELSE IF mode = "off" THEN FALSE ELSE hard_mode
  /\ last' = Out("rrhard", ctx, IF mode \in {"on", "off"} THEN "ok" ELSE "usage", 0, <<>>)
  /\ UNCHANGED <<bindingVars, panic_locked, autopanic_enabled, autopanic_reason, suspended,
                 suspend_reason, mediaVars, memoryVars, snapshotVars, dj_user_id, localVars,
                 taskVars, envVars, hist>>

rrstatus(ctx) ==
  /\ cog_check(ctx, "rrstatus").pass
  /\ Refused("rrstatus", ctx, "ok", 0)

rrsetdj(ctx, member) ==
  /\ cog_check(ctx, "rrsetdj").pass
  /\ dj_user_id' = member
  /\ last' = Out("rrsetdj", ctx, "ok", 0, <<>>)
  /\ UNCHANGED <<bindingVars, postureVars, mediaVars, memoryVars, snapshotVars, localVars,
                 taskVars, envVars, hist>>

rrcontrol_Rebinds(ctx, target) ==
  /\ cog_check(ctx, "rrcontrol").pass
  /\ IF ~bound
       THEN Refused("rrcontrol", ctx, "not_bound", 0)
     ELSE IF allowed_guild_id # NONE /\ ctx.guild # allowed_guild_id
       THEN Refused("rrcontrol", ctx, "wrong_guild", 0)
     ELSE /\ control_text_channel_id' = target
          /\ allowed_voice_channel_id' = ctx.voice
          /\ last' = Out("rrcontrol", ctx, "ok", 0, <<>>)
          /\ UNCHANGED <<bound, allowed_guild_id, bound_owner_user_id, postureVars, mediaVars,
                         memoryVars, snapshotVars, dj_user_id, localVars, taskVars, envVars, hist>>

rrcontrol(ctx, target) ==
  /\ cog_check(ctx, "rrcontrol").pass
  /\ LET p == _require_owner_in_allowed_vc(ctx) IN
     IF ~bound
       THEN Refused("rrcontrol", ctx, "not_bound", 0)
     ELSE IF allowed_guild_id # NONE /\ ctx.guild # allowed_guild_id
       THEN Refused("rrcontrol", ctx, "wrong_guild", 0)
     ELSE IF p # "ok"
       THEN Refused("rrcontrol", ctx, p, PresenceAudits(p))
     ELSE /\ control_text_channel_id' = target
          /\ last' = Out("rrcontrol", ctx, "ok", 0, <<>>)
          /\ UNCHANGED <<bound, allowed_guild_id, allowed_voice_channel_id, bound_owner_user_id,
                         postureVars, mediaVars,
                         memoryVars, snapshotVars, dj_user_id, localVars, taskVars, envVars, hist>>

\* ------------------------------------------------------------------------
\* Audio wrappers.  A call to the external player is a pair <<command, query>>;
\* whether it succeeds (found and not throwing) is an input of the handler.
\* ------------------------------------------------------------------------
Call(name, query) == <<name, query>>

PlayOutcomes == [1..3 -> BOOLEAN]

\* the external player after a handler's calls: a play that worked leaves it
\* playing, a stop without a later successful play leaves it stopped
PlayingAfter(calls, played) ==
  IF played THEN TRUE
  ELSE IF \E i \in 1..Len(calls) : calls[i][1] = "stop" THEN FALSE
  ELSE playing

Media(url, name, intent, calls, ok) == [url |-> url, name |-> name, intent |-> intent, calls |-> calls, ok |-> ok]

\* one replay attempt of the resume chain: write the target, then play it
ReplayQuery(m, q, oks) ==
  LET c == Append(m.calls, Call("play", q)) IN Media(m.url, m.name, TRUE, c, oks[Len(c)])

ReplayStation(m, n, u, oks) ==
  LET c == Append(m.calls, Call("play", u)) IN Media(u, n, m.intent, c, oks[Len(c)])

_attempt_resume_after_unlock(oks) ==
  LET s0 == Media(NONE, NONE, FALSE, <<>>, FALSE)
      s1 == IF panic_resume_kind = "youtube"
              THEN IF panic_resume_youtube_query # NONE
                     THEN ReplayQuery(s0, panic_resume_youtube_query, oks) ELSE s0
            ELSE IF panic_resume_kind = "radio"
              THEN IF panic_resume_station_name # NONE /\ panic_resume_station_url # NONE
                     THEN ReplayStation(s0, panic_resume_station_name, panic_resume_station_url, oks)
                     ELSE s0
            ELSE s0
      s2 == IF s1.ok THEN s1
            ELSE IF last_youtube_query # NONE THEN ReplayQuery(s1, last_youtube_query, oks)
            ELSE s1
      s3 == IF s2.ok THEN s2
            ELSE IF last_station_name # NONE /\ last_station_stream_url # NONE
              THEN ReplayStation(s2, last_station_name, last_station_stream_url, oks)
            ELSE s2
  IN s3

\* _restore_radio_after_unlock without the stop that precedes the play
_restore_radio_after_unlock_NoStop(oks) ==
  IF last_station_name = NONE \/ last_station_stream_url = NONE
    THEN Media(stream_url, station_name, audio_intent_active, <<>>, FALSE)
    ELSE Media(last_station_stream_url, last_station_name, FALSE,
               <<Call("play", last_station_stream_url)>>, oks[1])

_restore_radio_after_unlock(oks) ==
  IF last_station_name = NONE \/ last_station_stream_url = NONE
    THEN Media(stream_url, station_name, audio_intent_active, <<>>, FALSE)
    ELSE Media(last_station_stream_url, last_station_name, FALSE,
               <<Call("stop", ""), Call("play", last_station_stream_url)>>, oks[1])

\* the mode flags of rrunlock
do_home(mode) == mode \in {"", "home", "resume", "full", "radio"}

\* a resume flag that is also set when no mode is given
do_resume_ByDefault(mode) == mode \in {"", "resume", "full"}

do_resume(mode) == mode \in {"resume", "full"}

do_radio(mode) == mode = "radio"

rrunlock(ctx, mode, summonOk, oks) ==
  /\ cog_check(ctx, "rrunlock").pass
  /\ LET p == _require_owner_in_allowed_vc(ctx)
         flags == /\ panic_locked' = FALSE
                  /\ autopanic_reason' = NONE
                  /\ _unsuspend
                  /\ hist' = HistCleared
                  /\ grace' = IF do_home(mode) THEN 2 ELSE grace
                  /\ UNCHANGED <<bindingVars, autopanic_enabled, hard_mode, memoryVars, dj_user_id,
                                 stations_cache, taskVars>>
     IN
     IF ~bound
       THEN Refused("rrunlock", ctx, "not_bound", 0)
     ELSE IF p # "ok"
       THEN Refused("rrunlock", ctx, p, PresenceAudits(p))
     ELSE IF do_home(mode) /\ ~summonOk
       THEN /\ flags
            /\ last' = Out("rrunlock", ctx, "summon_failed", 0, <<Call("summon", "")>>)
            /\ UNCHANGED <<mediaVars, snapshotVars, envVars>>
     ELSE IF (do_resume(mode) \/ (do_radio(mode) /\ _restore_radio_after_unlock(oks).calls # <<>>))
               /\ Escaped({_set_presence(delivers.presence)})
       \* the presence update that follows the clearing of the media state
       \* ends the handler: nothing is replayed, the snapshot stays
       THEN /\ flags
            /\ _clear_radio_state
            /\ _clear_audio_intent
            /\ botVc' = ctx.voice
            /\ playing' = IF do_radio(mode) THEN FALSE ELSE playing
            /\ last' = Out("rrunlock", ctx, "raised", 0,
                           <<Call("summon", "")>> \o (IF do_radio(mode) THEN <<Call("stop", "")>> ELSE <<>>))
            /\ UNCHANGED <<snapshotVars, delivers, loopVars>>
     ELSE IF do_radio(mode) \/ do_resume(mode)
       THEN LET m == IF do_radio(mode) THEN _restore_radio_after_unlock(oks)
                     ELSE _attempt_resume_after_unlock(oks)
            IN /\ flags
               /\ stream_url' = m.url
               /\ station_name' = m.name
               /\ audio_intent_active' = m.intent
               /\ _clear_panic_snapshot
               /\ botVc' = ctx.voice
               /\ playing' = PlayingAfter(m.calls, m.ok)
               /\ last' = Out("rrunlock", ctx,
                              IF Escaped({_notify_control(delivers.notify)}) THEN "raised"
                              ELSE IF m.ok THEN "resumed" ELSE "nothing_resumed", 0,
                              <<Call("summon", "")>> \o m.calls)
               /\ UNCHANGED <<delivers, loopVars>>
     ELSE /\ flags
          /\ _clear_panic_snapshot
          /\ botVc' = IF do_home(mode) THEN ctx.voice ELSE botVc
          /\ last' = Out("rrunlock", ctx,
                         IF Escaped({_notify_control(delivers.notify)}) THEN "raised" ELSE "unlocked",
                         0, IF do_home(mode) THEN <<Call("summon", "")>> ELSE <<>>)
          /\ UNCHANGED <<mediaVars, playing, delivers, loopVars>>

rrhome(ctx, summonOk) ==
  /\ cog_check(ctx, "rrhome").pass
  /\ LET p == _require_owner_in_allowed_vc(ctx) IN
     IF panic_locked
       THEN Refused("rrhome", ctx, "panic_locked", 0)
     ELSE IF p # "ok"
       THEN Refused("rrhome", ctx, p, PresenceAudits(p))
     ELSE IF _bot_is_home
       THEN Refused("rrhome", ctx, "already_home", 0)
     ELSE /\ grace' = 2
          /\ _unsuspend
          /\ botVc' = IF summonOk THEN ctx.voice ELSE botVc
          /\ last' = Out("rrhome", ctx, IF summonOk THEN "ok" ELSE "summon_failed", 0,
                         <<Call("summon", "")>>)
          /\ UNCHANGED <<bindingVars, panic_locked, autopanic_enabled, autopanic_reason, hard_mode,
                         mediaVars, memoryVars, snapshotVars, dj_user_id, stations_cache, taskVars,
                         playing, delivers, loopVars, hist>>

\* ------------------------------------------------------------------------
\* Radio search / play
\* ------------------------------------------------------------------------
_require_bot_home == _bot_is_home

\* found: the filtered result list of the lookup, <<>> when nothing is usable
searchstations(ctx, found) ==
  /\ cog_check(ctx, "searchstations").pass
  /\ LET p == _require_owner_in_allowed_vc(ctx) IN
     IF p # "ok"
       THEN Refused("searchstations", ctx, p, PresenceAudits(p))
     ELSE IF ~_require_bot_home
       THEN Refused("searchstations", ctx, "bot_not_home", 0)
     ELSE IF suspended
       THEN Refused("searchstations", ctx, "suspended", 0)
     ELSE IF found = <<>>
       THEN Refused("searchstations", ctx, "no_stations", 0)
     ELSE /\ stations_cache' = found
          /\ last' = Out("searchstations", ctx, "ok", 0, <<>>)
          /\ UNCHANGED <<storeVars, grace, taskVars, envVars, hist>>

playstation(ctx, index, playOk) ==
  /\ cog_check(ctx, "playstation").pass
  /\ LET p == _require_owner_in_allowed_vc(ctx) IN
     IF p # "ok"
       THEN Refused("playstation", ctx, p, PresenceAudits(p))
     ELSE IF ~_require_bot_home
       THEN Refused("playstation", ctx, "bot_not_home", 0)
     ELSE IF suspended
       THEN Refused("playstation", ctx, "suspended", 0)
     ELSE IF stations_cache = <<>>
       THEN Refused("playstation", ctx, "no_cache", 0)
     ELSE IF index < 1 \/ index > Len(stations_cache)
       THEN Refused("playstation", ctx, "invalid_index", 0)
     ELSE LET station == stations_cache[index] IN
          /\ last_station_name' = station.name
          /\ last_station_stream_url' = station.stream_url
          /\ _clear_audio_intent
          /\ stream_url' = station.stream_url
          /\ station_name' = station.name
          /\ playing' = IF playOk THEN TRUE ELSE playing
          /\ last' = Out("playstation", ctx, IF playOk THEN "ok" ELSE "play_failed", 0,
                         <<Call("play", station.stream_url)>>)
          /\ UNCHANGED <<bindingVars, postureVars, last_youtube_query, snapshotVars, dj_user_id,
                         localVars, taskVars, botVc, delivers, loopVars, hist>>

rrrestore(ctx, playOk) ==
  /\ cog_check(ctx, "rrrestore").pass
  /\ LET p == _require_owner_in_allowed_vc(ctx) IN
     IF p # "ok"
       THEN Refused("rrrestore", ctx, p, PresenceAudits(p))
     ELSE IF ~_require_bot_home
       THEN Refused("rrrestore", ctx, "bot_not_home", 0)
     ELSE IF suspended
       THEN Refused("rrrestore", ctx, "suspended", 0)
     ELSE IF panic_locked
       THEN Refused("rrrestore", ctx, "panic_locked", 0)
     ELSE IF last_station_name = NONE \/ last_station_stream_url = NONE
       THEN Refused("rrrestore", ctx, "no_saved_station", 0)
     ELSE /\ _clear_audio_intent
          /\ stream_url' = last_station_stream_url
          /\ station_name' = last_station_name
          /\ playing' = playOk
          /\ last' = Out("rrrestore", ctx, IF playOk THEN "ok" ELSE "play_failed", 0,
                         <<Call("stop", ""), Call("play", last_station_stream_url)>>)
          /\ UNCHANGED <<bindingVars, postureVars, memoryVars, snapshotVars, dj_user_id,
                         localVars, taskVars, botVc, delivers, loopVars, hist>>

stopstation(ctx) ==
  /\ cog_check(ctx, "stopstation").pass
  /\ LET p == _require_owner_in_allowed_vc(ctx) IN
     IF p # "ok"
       THEN Refused("stopstation", ctx, p, PresenceAudits(p))
     ELSE /\ _clear_radio_state
          /\ playing' = FALSE
          /\ last' = Out("stopstation", ctx, "ok", 0, <<Call("stop", "")>>)
          /\ UNCHANGED <<bindingVars, postureVars, audio_intent_active, memoryVars, snapshotVars,
                         dj_user_id, localVars, taskVars, botVc, delivers, loopVars, hist>>

\* ------------------------------------------------------------------------
\* DJ commands: messages only, nothing of the perimeter state is written
\* (imgoing also restarts the sleep timer: see the reassurance scheduler)
\* ------------------------------------------------------------------------
\* a request that is taken from any caller
DjCommand_Ungated(ctx, cmd) ==
  /\ cmd \in DjCommands \ {"imgoing"}
  /\ Refused(cmd, ctx, "ok", 0)

DjCommand(ctx, cmd) ==
  /\ cmd \in DjCommands \ {"imgoing"}
  /\ cog_check(ctx, cmd).pass
  /\ Refused(cmd, ctx, "ok", 0)

\* ------------------------------------------------------------------------
\* Automatic panic: the critical section under _autopanic_lock
\* ------------------------------------------------------------------------
\* AutopanicBody without the re-check of panic_locked under the mutex
AutopanicBody_NoRecheck(t, reason, discOk) ==
  /\ SetSnapshot(_snapshot_for_panic)
  /\ panic_locked' = TRUE
  /\ autopanic_reason' = reason
  /\ _vc_disconnect(discOk)
  /\ _clear_radio_state
  /\ _clear_audio_intent
  /\ pc' = [pc EXCEPT ![t] = "holding"]
  /\ treason' = [treason EXCEPT ![t] = reason]
  /\ UNCHANGED snapping
  /\ autopanic_lock' = TRUE
  /\ hist' = HistAcquired(hist, reason, TRUE)
  /\ last' = Out("autopanic", NoCtx, "committed", 1, <<>>)
  /\ UNCHANGED <<bindingVars, autopanic_enabled, suspended, suspend_reason, hard_mode,
                 memoryVars, dj_user_id, localVars, delivers, loopVars>>

\* The body of "async with self._autopanic_lock" run by task t with its reason.
\* Already panicked: the task returns and the mutex is left free.  Otherwise
\* the transition is written and the task keeps the mutex while its audit and
\* control-channel messages are delivered; an exception of one of these leaves
\* "async with" at once, for the caller to catch.
AutopanicBody(t, reason, discOk) ==
  IF panic_locked
    THEN /\ pc' = [pc EXCEPT ![t] = "idle"]
         /\ treason' = [treason EXCEPT ![t] = NONE]
         /\ UNCHANGED snapping
         /\ autopanic_lock' = FALSE
         /\ hist' = HistAcquired(hist, reason, FALSE)
         /\ last' = Out("autopanic", NoCtx, "already_locked", 0, <<>>)
         /\ UNCHANGED <<storeVars, localVars, envVars>>
    ELSE LET esc == Escaped({_set_presence(delivers.presence), _audit_security(delivers.audit),
                             _notify_control(delivers.notify)})
         IN /\ SetSnapshot(_snapshot_for_panic)
            /\ panic_locked' = TRUE
            /\ autopanic_reason' = reason
            /\ _vc_disconnect(discOk)
            /\ _clear_radio_state
            /\ _clear_audio_intent
            /\ pc' = [pc EXCEPT ![t] = IF esc THEN "idle" ELSE "holding"]
            /\ treason' = [treason EXCEPT ![t] = IF esc THEN NONE ELSE reason]
            /\ UNCHANGED snapping
            /\ autopanic_lock' = ~esc
            /\ hist' = HistAcquired(hist, reason, TRUE)
            /\ last' = Out("autopanic", NoCtx, IF esc THEN "raised" ELSE "committed", 1, <<>>)
            /\ UNCHANGED <<bindingVars, autopanic_enabled, suspended, suspend_reason, hard_mode,
                           memoryVars, dj_user_id, localVars, delivers, loopVars>>

\* _autopanic as called by a trigger: return when disabled, run the body when
\* the mutex is free, else queue on the mutex
_autopanic(t, reason, discOk) ==
  IF ~autopanic_enabled
    THEN /\ last' = Out("autopanic", NoCtx, "disabled", 0, <<>>)
         /\ UNCHANGED <<storeVars, localVars, taskVars, envVars, hist>>
  ELSE IF ~autopanic_lock
    THEN AutopanicBody(t, reason, discOk)
  ELSE /\ pc' = [pc EXCEPT ![t] = "waiting"]
       /\ treason' = [treason EXCEPT ![t] = reason]
       /\ UNCHANGED snapping
       /\ last' = Out("autopanic", NoCtx, "waiting", 0, <<>>)
       /\ UNCHANGED <<storeVars, localVars, autopanic_lock, envVars, hist>>

\* a queued trigger gets the mutex
AutopanicEnter(t, discOk) ==
  /\ pc[t] = "waiting"
  /\ ~autopanic_lock
  /\ AutopanicBody(t, treason[t], discOk)

\* a task that returns from _autopanic without giving the mutex back
AutopanicExit_KeepsMutex(t) ==
  /\ pc[t] = "holding"
  /\ autopanic_lock
  /\ pc' = [pc EXCEPT ![t] = "idle"]
  /\ treason' = [treason EXCEPT ![t] = NONE]
  /\ UNCHANGED <<storeVars, localVars, autopanic_lock, snapping, envVars, last, hist>>

\* the notifications are out: leave "async with"
AutopanicExit(t) ==
  /\ pc[t] = "holding"
  /\ autopanic_lock
  /\ autopanic_lock' = FALSE
  /\ pc' = [pc EXCEPT ![t] = "idle"]
  /\ treason' = [treason EXCEPT ![t] = NONE]
  /\ UNCHANGED snapping
  /\ UNCHANGED <<storeVars, localVars, envVars, last, hist>>

\* ------------------------------------------------------------------------
\* _autopanic await by await.  Between two awaits of a coroutine the event
\* loop may run any other handler; the mutex only keeps a second _autopanic
\* out.  The steps: the check under the mutex, the snapshot, the writes of
\* panic_locked and the reason, the disconnect and the clearing of the media
\* state, after which the task delivers its messages and leaves the mutex
\* (AutopanicExit).
\* ------------------------------------------------------------------------
_autopanic_check(t, reason) ==
  /\ pc[t] = "idle"
  /\ autopanic_enabled
  /\ ~autopanic_lock
  /\ ~panic_locked
  /\ autopanic_lock' = TRUE
  /\ pc' = [pc EXCEPT ![t] = "checked"]
  /\ treason' = [treason EXCEPT ![t] = reason]
  /\ UNCHANGED snapping
  /\ hist' = [hist EXCEPT !.entered = HistEntered(hist)]
  /\ last' = Out("autopanic", NoCtx, "checked", 0, <<>>)
  /\ UNCHANGED <<storeVars, localVars, envVars>>

_autopanic_snapshot(t) ==
  /\ pc[t] = "checked"
  /\ SetSnapshot(_snapshot_for_panic)
  /\ pc' = [pc EXCEPT ![t] = "snapped"]
  /\ last' = Out("autopanic", NoCtx, "snapped", 0, <<>>)
  /\ UNCHANGED <<bindingVars, postureVars, mediaVars, memoryVars, dj_user_id, localVars,
                 autopanic_lock, treason, snapping, envVars, hist>>

\* _snapshot_for_panic write by write: the media state is read and the kind
\* is written, then, after the await of that write, the other three fields
_snapshot_kind(t) ==
  /\ pc[t] = "checked"
  /\ panic_resume_kind' = _snapshot_for_panic.kind
  /\ snapping' = [snapping EXCEPT ![t] = _snapshot_for_panic]
  /\ pc' = [pc EXCEPT ![t] = "snapping"]
  /\ last' = Out("autopanic", NoCtx, "snapping", 0, <<>>)
  /\ UNCHANGED <<bindingVars, postureVars, mediaVars, memoryVars, panic_resume_station_name,
                 panic_resume_station_url, panic_resume_youtube_query, dj_user_id, localVars,
                 autopanic_lock, treason, envVars, hist>>

_snapshot_rest(t) ==
  /\ pc[t] = "snapping"
  /\ panic_resume_station_name' = snapping[t].name
  /\ panic_resume_station_url' = snapping[t].url
  /\ panic_resume_youtube_query' = snapping[t].query
  /\ snapping' = [snapping EXCEPT ![t] = NoSnapshot]
  /\ pc' = [pc EXCEPT ![t] = "snapped"]
  /\ last' = Out("autopanic", NoCtx, "snapped", 0, <<>>)
  /\ UNCHANGED <<bindingVars, postureVars, mediaVars, memoryVars, panic_resume_kind, dj_user_id,
                 localVars, autopanic_lock, treason, envVars, hist>>

_autopanic_flags(t) ==
  /\ pc[t] = "snapped"
  /\ panic_locked' = TRUE
  /\ autopanic_reason' = treason[t]
  /\ pc' = [pc EXCEPT ![t] = "flagged"]
  /\ last' = Out("autopanic", NoCtx, "flagged", 0, <<>>)
  /\ UNCHANGED <<bindingVars, autopanic_enabled, suspended, suspend_reason, hard_mode, mediaVars,
                 memoryVars, snapshotVars, dj_user_id, localVars, autopanic_lock, treason, snapping,
                 envVars, hist>>

_autopanic_clear(t, discOk) ==
  /\ pc[t] = "flagged"
  /\ _vc_disconnect(discOk)
  /\ _clear_radio_state
  /\ _clear_audio_intent
  /\ pc' = [pc EXCEPT ![t] = "holding"]
  /\ hist' = HistAcquired(hist, treason[t], TRUE)
  /\ last' = Out("autopanic", NoCtx, "committed", 1, <<>>)
  /\ UNCHANGED <<bindingVars, postureVars, memoryVars, snapshotVars, dj_user_id, localVars,
                 autopanic_lock, treason, snapping, delivers, loopVars>>

\* an automatic panic is past its check of panic_locked and has not left the mutex
InFlight(t) == pc[t] \in {"checked", "snapping", "snapped", "flagged", "holding"}

\* ------------------------------------------------------------------------
\* Unload: cog_unload cancels the two loops; a cancelled task gets
\* CancelledError at the await it is suspended on
\* ------------------------------------------------------------------------
cog_unload ==
  /\ ~unloading
  /\ unloading' = TRUE
  /\ UNCHANGED <<storeVars, localVars, taskVars, botVc, playing, delivers, now, djVoice,
                 settings, sleepVars, _last_reassure_in_vc_ts, _last_reassure_out_vc_ts, rpc,
                 heard, last, hist>>

\* a watchdog that took the mutex with acquire() and no "async with": the
\* error leaves the mutex locked
_watchdog_cancelled_KeepsMutex ==
  /\ unloading
  /\ pc[WatchdogTask] # "done"
  /\ pc' = [pc EXCEPT ![WatchdogTask] = "done"]
  /\ UNCHANGED <<storeVars, localVars, autopanic_lock, treason, snapping, envVars, last, hist>>

\* the watchdog gets CancelledError: "async with" releases the mutex when the
\* task is inside _autopanic, "except asyncio.CancelledError: break" ends it
_watchdog_cancelled ==
  /\ unloading
  /\ pc[WatchdogTask] # "done"
  /\ pc' = [pc EXCEPT ![WatchdogTask] = "done"]
  /\ autopanic_lock' = IF InFlight(WatchdogTask) THEN FALSE ELSE autopanic_lock
  /\ UNCHANGED <<storeVars, localVars, treason, snapping, envVars, last, hist>>

\* the reassurance scheduler gets CancelledError in its sleep and ends
_reassure_cancelled ==
  /\ unloading
  /\ rpc = "sleeping"
  /\ rpc' = "done"
  /\ UNCHANGED <<storeVars, localVars, taskVars, botVc, playing, delivers, now, djVoice,
                 settings, sleepVars, _last_reassure_in_vc_ts, _last_reassure_out_vc_ts,
                 unloading, heard, last, hist>>

\* ------------------------------------------------------------------------
\* Audio command tripwire
\* ------------------------------------------------------------------------
_audio_cmd_is_allowed(ctx) ==
  /\ bound
  /\ ~(allowed_guild_id # NONE /\ ctx.guild # allowed_guild_id)
  /\ is_owner(ctx.author)
  /\ ~(control_text_channel_id # NONE /\ ctx.channel # control_text_channel_id)
  /\ allowed_voice_channel_id # NONE
  /\ ctx.voice # NONE
  /\ ctx.voice = allowed_voice_channel_id

_looks_like_youtube(text) == text \in PlayTexts

\* str.lower() on the characters of the texts above
Lower(c) ==
  IF c = "N" THEN "n" ELSE IF c = "S" THEN "s" ELSE IF c = "A" THEN "a" ELSE IF c = "B" THEN "b"
  ELSE c

LowerText(t) == [i \in 1..Len(t) |-> Lower(t[i])]

\* str.strip(): the blanks at both ends go
RECURSIVE Strip(_)
Strip(t) ==
  IF t # <<>> /\ Head(t) = " " THEN Strip(Tail(t))
  ELSE IF t # <<>> /\ t[Len(t)] = " " THEN Strip(SubSeq(t, 1, Len(t) - 1))
  ELSE t

\* str.split(",")
RECURSIVE Split(_)
Split(csv) ==
  IF \A i \in 1..Len(csv) : csv[i] # ","
    THEN <<csv>>
    ELSE LET i == CHOOSE k \in 1..Len(csv) : csv[k] = "," /\ \A j \in 1..(k - 1) : csv[j] # ","
         IN <<SubSeq(csv, 1, i - 1)>> \o Split(SubSeq(csv, i + 1, Len(csv)))

NonBlank(t) == Strip(t) # <<>>

_parse_blocklist(csv) ==
  LET kept == SelectSeq(Split(csv), NonBlank)
  IN [i \in 1..Len(kept) |-> LowerText(Strip(kept[i]))]

\* a setting read as holding no term
_blocked_terms_Empty == <<>>

_blocked_terms == _parse_blocklist(block_tags_csv)

\* b occurs in blob as a run of consecutive characters
Contains(blob, b) ==
  \E i \in 0..(Len(blob) - Len(b)) : SubSeq(blob, i + 1, i + Len(b)) = b

\* a matcher that compares the text as typed, capitals included
_text_matches_blocklist_CaseSensitive(text, blocked) ==
  \E k \in 1..Len(blocked) : blocked[k] # <<>> /\ Contains(text, blocked[k])

_text_matches_blocklist(text, blocked) ==
  \E k \in 1..Len(blocked) : blocked[k] # <<>> /\ Contains(LowerText(text), blocked[k])

\* typed texts that the pre-play filter of on_command stops
BlockedTexts ==
  {q \in PlayTexts : _blocked_terms # <<>> /\ _text_matches_blocklist(TextOf(q), _blocked_terms)}

\* lines 1049-1052 of the watchdog: there are terms, there is metadata, and
\* the metadata matches
TrackBlocked(track) ==
  /\ _blocked_terms # <<>>
  /\ TextOf(track) # <<>>
  /\ _text_matches_blocklist(TextOf(track), _blocked_terms)

Ignored(name, ctx, res) ==
  /\ last' = Out(name, ctx, res, 0, <<>>)
  /\ UNCHANGED <<storeVars, localVars, taskVars, envVars, hist>>

\* on_command once "allowed = await self._audio_cmd_is_allowed(ctx)" is known
Tripwire(t, ctx, allowed, name, text, discOk) ==
  /\ pc[t] = "idle"
  /\ IF name \in AUDIO_SUMMON_ALIASES /\ grace = 2
       THEN Ignored(name, ctx, "grace_summon")
     ELSE IF allowed
       THEN IF name \in AUDIO_PLAY_ALIASES
              THEN IF ~_looks_like_youtube(text)
                     THEN Ignored(name, ctx, "legit")
                   ELSE IF _blocked_terms # <<>> /\ _text_matches_blocklist(TextOf(text), _blocked_terms)
                     THEN /\ _clear_audio_intent
                          /\ last' = Out(name, ctx, "blocked", 0, <<>>)
                          /\ UNCHANGED <<bindingVars, postureVars, stream_url, station_name,
                                         memoryVars, snapshotVars, dj_user_id, localVars,
                                         taskVars, envVars, hist>>
                   ELSE /\ IF _radio_active
                             THEN /\ last_station_name' = station_name
                                  /\ last_station_stream_url' = stream_url
                             ELSE UNCHANGED <<last_station_name, last_station_stream_url>>
                        /\ _clear_radio_state
                        /\ audio_intent_active' = TRUE
                        /\ last_youtube_query' = text
                        /\ last' = Out(name, ctx, "legit", 0, <<>>)
                        /\ UNCHANGED <<bindingVars, postureVars, snapshotVars, dj_user_id,
                                       localVars, taskVars, envVars, hist>>
            ELSE IF name \in AUDIO_STOP_ALIASES \/ name \in AUDIO_DISCONNECT_ALIASES
              THEN /\ _clear_radio_state
                   /\ _clear_audio_intent
                   /\ grace' = IF name \in AUDIO_DISCONNECT_ALIASES THEN 2 ELSE grace
                   /\ last' = Out(name, ctx, "legit", 0, <<>>)
                   /\ UNCHANGED <<bindingVars, postureVars, memoryVars, snapshotVars, dj_user_id,
                                  stations_cache, taskVars, envVars, hist>>
            ELSE Ignored(name, ctx, "legit")
     ELSE IF ~_any_active
       THEN Ignored(name, ctx, "harmless")
     ELSE IF hard_mode
       THEN _autopanic(t, name, discOk)
     ELSE /\ _suspend(name)
          /\ last' = Out(name, ctx, "suspended", 0, <<>>)
          /\ UNCHANGED <<bindingVars, panic_locked, autopanic_enabled, autopanic_reason, hard_mode,
                         mediaVars, memoryVars, snapshotVars, dj_user_id, localVars, taskVars,
                         envVars, hist>>

\* the tripwire, run by handler task t for the external player's command
\* "name" typed as "text" (NONE: a text that does not look like video content)
on_command(t, ctx, name, text, discOk) ==
  Tripwire(t, ctx, _audio_cmd_is_allowed(ctx), name, text, discOk)

\* ------------------------------------------------------------------------
\* Watchdog and the track-start filter
\* ------------------------------------------------------------------------
\* one pass of the loop body; trackBlocked: the resolved metadata of the
\* current track contains a blocked term; discOk: the call to the external
\* player (the disconnect of the automatic panic, the stop of a blocked
\* track) works, or throws and is swallowed
\* a tick that does not look at the grace window
WatchdogTick_NoGrace(trackBlocked, discOk) ==
  /\ pc[WatchdogTask] = "idle"
  /\ IF ~bound \/ panic_locked \/ suspended \/ allowed_guild_id = NONE \/ ~_any_active
       THEN /\ last' = Out("watchdog", NoCtx, "skip", 0, <<>>)
            /\ UNCHANGED <<storeVars, localVars, taskVars, envVars, hist>>
     ELSE IF ~_bot_is_home
       THEN _autopanic(WatchdogTask, "watchdog", discOk)
     ELSE IF trackBlocked
       THEN /\ _clear_radio_state
            /\ _clear_audio_intent
            /\ playing' = IF discOk THEN FALSE ELSE playing
            /\ last' = Out("watchdog", NoCtx, "blocked_track", 1, <<>>)
            /\ UNCHANGED <<bindingVars, postureVars, memoryVars, snapshotVars, dj_user_id,
                           localVars, taskVars, botVc, delivers, loopVars, hist>>
     ELSE /\ last' = Out("watchdog", NoCtx, "clean", 0, <<>>)
          /\ UNCHANGED <<storeVars, localVars, taskVars, envVars, hist>>

WatchdogTick(trackBlocked, discOk) ==
  /\ pc[WatchdogTask] = "idle"
  /\ IF ~bound \/ panic_locked \/ suspended \/ grace > 0 \/ allowed_guild_id = NONE \/ ~_any_active
       THEN /\ last' = Out("watchdog", NoCtx, "skip", 0, <<>>)
            /\ UNCHANGED <<storeVars, localVars, taskVars, envVars, hist>>
     ELSE IF ~_bot_is_home
       THEN _autopanic(WatchdogTask, "watchdog", discOk)
     ELSE IF trackBlocked
       THEN /\ _clear_radio_state
            /\ _clear_audio_intent
            /\ playing' = IF discOk THEN FALSE ELSE playing
            /\ last' = Out("watchdog", NoCtx, "blocked_track", 1, <<>>)
            /\ UNCHANGED <<bindingVars, postureVars, memoryVars, snapshotVars, dj_user_id,
                           localVars, taskVars, botVc, delivers, loopVars, hist>>
     ELSE /\ last' = Out("watchdog", NoCtx, "clean", 0, <<>>)
          /\ UNCHANGED <<storeVars, localVars, taskVars, envVars, hist>>

\* a pass of the loop body in which a call raised before anything was written:
\* without "except Exception" the error ends the loop
WatchdogError_Fatal ==
  /\ pc[WatchdogTask] = "idle"
  /\ pc' = [pc EXCEPT ![WatchdogTask] = "done"]
  /\ hist' = [hist EXCEPT !.logged = "watchdog" \in hist.watch]
  /\ last' = Out("watchdog", NoCtx, "error", 0, <<>>)
  /\ UNCHANGED <<storeVars, localVars, autopanic_lock, treason, snapping, envVars>>

\* a pass of the loop body in which a call raised before anything was written:
\* "except Exception" logs the error and the loop goes on
WatchdogError ==
  /\ pc[WatchdogTask] = "idle"
  /\ hist' = [hist EXCEPT !.logged = "watchdog" \in hist.watch]
  /\ last' = Out("watchdog", NoCtx, "error", 0, <<>>)
  /\ UNCHANGED <<storeVars, localVars, taskVars, envVars>>

\* _handle_lavalink_event for a track-start event of the registered guild whose
\* track metadata contains a blocked term
_handle_lavalink_event ==
  /\ bound
  /\ ~panic_locked
  /\ ~suspended
  /\ allowed_guild_id # NONE
  /\ audio_intent_active
  /\ _clear_radio_state
  /\ _clear_audio_intent
  /\ playing' = FALSE
  /\ last' = Out("track_start", NoCtx, "blocked_track", 1, <<>>)
  /\ UNCHANGED <<bindingVars, postureVars, memoryVars, snapshotVars, dj_user_id, localVars,
                 taskVars, botVc, delivers, loopVars, hist>>

\* ------------------------------------------------------------------------
\* Reassurance scheduler: one pass of _periodic_reassurance_loop, the
\* acknowledgment command and the moves of the protected user
\* ------------------------------------------------------------------------
Max(a, b) == IF a >= b THEN a ELSE b

\* the cadence of the "user present" / "user elsewhere" messages, in seconds
\* a cadence that takes the configured value as it is
ReassureInterval_NoFloor(configured, floor) == configured

ReassureInterval(configured, floor) == Max(configured, floor)

\* level of the reminder whose number (since the last reset) is count
ReminderLevel(count) == IF count <= 1 THEN 1 ELSE IF count = 2 THEN 2 ELSE 3

\* the protected user is connected to the registered voice channel
dj_in_allowed_vc == djVoice # NONE /\ djVoice = allowed_voice_channel_id

\* the scheduler wakes after REASSURE_TICK seconds and runs the body once
ReassureTick ==
  /\ rpc = "sleeping"
  /\ ~unloading
  /\ now' = now + REASSURE_TICK
  /\ LET now_m == now + REASSURE_TICK
         skip == \/ ~bound \/ panic_locked \/ suspended
                 \/ allowed_guild_id = NONE \/ allowed_voice_channel_id = NONE \/ dj_user_id = NONE
         bot_home == _bot_is_home
         track == ~skip /\ bot_home
         fresh == _dj_in_vc_since_monotonic <= 0
         since1 == IF ~dj_in_allowed_vc THEN 0
                   ELSE IF fresh THEN now_m ELSE _dj_in_vc_since_monotonic
         last1 == IF dj_in_allowed_vc /\ ~fresh THEN _last_sleep_reminder_monotonic ELSE 0
         count1 == IF dj_in_allowed_vc /\ ~fresh THEN _sleep_reminder_count ELSE 0
         final1 == IF dj_in_allowed_vc /\ ~fresh THEN _sleep_final_sent ELSE FALSE
         mins == (now_m - since1) \div 60
         threshold == settings.dj_sleep_after_minutes
         repeat == Max(10, settings.dj_sleep_repeat_minutes)
         due == /\ track /\ dj_in_allowed_vc /\ settings.dj_sleep_reminder_enabled /\ since1 > 0
                /\ threshold > 0 /\ mins >= threshold
                /\ (last1 <= 0 \/ now_m - last1 >= repeat * 60)
         count2 == IF due THEN count1 + 1 ELSE count1
         level == IF due THEN ReminderLevel(count2) ELSE 0
         finalNow == due /\ level >= 3 /\ ~final1
         reassure == track /\ settings.periodic_reassure_enabled /\ _any_active
         sendIn == /\ reassure /\ dj_in_allowed_vc
                   /\ ~(now_m - _last_reassure_in_vc_ts
                          < ReassureInterval(settings.reassure_interval_in_vc_sec, 30))
         sendOut == /\ reassure /\ ~dj_in_allowed_vc
                    /\ ~(now_m - _last_reassure_out_vc_ts
                           < ReassureInterval(settings.reassure_interval_out_vc_sec, 60))
         n == IF due THEN 1 ELSE 0
     IN /\ IF skip
             THEN UNCHANGED sleepVars
           ELSE IF ~bot_home
             THEN /\ _dj_in_vc_since_monotonic' = 0
                  /\ _last_sleep_reminder_monotonic' = 0
                  /\ _sleep_reminder_count' = 0
                  /\ _sleep_final_sent' = FALSE
           ELSE /\ _dj_in_vc_since_monotonic' = since1
                /\ _last_sleep_reminder_monotonic' = IF due THEN now_m ELSE last1
                /\ _sleep_reminder_count' = count2
                /\ _sleep_final_sent' = (final1 \/ finalNow)
        /\ _last_reassure_in_vc_ts' = IF sendIn THEN now_m ELSE _last_reassure_in_vc_ts
        /\ _last_reassure_out_vc_ts' = IF sendOut THEN now_m ELSE _last_reassure_out_vc_ts
        /\ heard' = [heard EXCEPT !.level = level, !.final = finalNow,
                                  !.inVc = sendIn, !.outVc = sendOut,
                                  !.k = @ + n, !.afterAck = @ + n,
                                  !.remAt = IF due THEN now_m ELSE @,
                                  !.inAt = IF sendIn THEN now_m ELSE @,
                                  !.inPrev = IF sendIn THEN heard.inAt ELSE @,
                                  !.outAt = IF sendOut THEN now_m ELSE @,
                                  !.outPrev = IF sendOut THEN heard.outAt ELSE @,
                                  !.homeSince = @ /\ bot_home,
                                  !.finals = IF ~(heard.homeSince /\ bot_home) THEN 0
                                             ELSE IF finalNow THEN @ + 1 ELSE @]
  /\ UNCHANGED <<storeVars, localVars, taskVars, botVc, playing, delivers, djVoice, settings,
                 rpc, unloading, last, hist>>

\* imgoing without the reset of the reminder count
imgoing_KeepCount(ctx) ==
  /\ cog_check(ctx, "imgoing").pass
  /\ _last_sleep_reminder_monotonic' = now
  /\ _sleep_final_sent' = FALSE
  /\ _dj_in_vc_since_monotonic' = IF _dj_in_vc_since_monotonic > 0 THEN now ELSE _dj_in_vc_since_monotonic
  /\ heard' = [heard EXCEPT !.ack = IF heard.joined > 0 THEN now ELSE 0, !.afterAck = 0]
  /\ last' = Out("imgoing", ctx, "ok", 0, <<>>)
  /\ UNCHANGED <<storeVars, localVars, taskVars, botVc, playing, delivers, now, djVoice, settings,
                 _sleep_reminder_count, _last_reassure_in_vc_ts, _last_reassure_out_vc_ts,
                 rpc, unloading, hist>>

\* imgoing: the protected user says they are leaving
imgoing(ctx) ==
  /\ cog_check(ctx, "imgoing").pass
  /\ _last_sleep_reminder_monotonic' = now
  /\ _sleep_reminder_count' = 0
  /\ _sleep_final_sent' = FALSE
  /\ _dj_in_vc_since_monotonic' = IF _dj_in_vc_since_monotonic > 0 THEN now ELSE _dj_in_vc_since_monotonic
  /\ heard' = [heard EXCEPT !.ack = IF heard.joined > 0 THEN now ELSE 0, !.afterAck = 0]
  /\ last' = Out("imgoing", ctx, "ok", 0, <<>>)
  /\ UNCHANGED <<storeVars, localVars, taskVars, botVc, playing, delivers, now, djVoice, settings,
                 _last_reassure_in_vc_ts, _last_reassure_out_vc_ts, rpc, unloading, hist>>

\* the protected user joins, changes or leaves a voice channel
DjMoves(v) ==
  /\ v # djVoice
  /\ djVoice' = v
  /\ heard' = SessionAt(heard, v)
  /\ UNCHANGED <<storeVars, localVars, taskVars, botVc, playing, delivers, now, settings,
                 sleepVars, _last_reassure_in_vc_ts, _last_reassure_out_vc_ts, rpc, unloading,
                 last, hist>>

\* ------------------------------------------------------------------------
\* Environment: the external player and the clock
\* ------------------------------------------------------------------------
\* the player's voice connection moves, drops or is re-established
EnvVoice(v) ==
  /\ v # botVc
  /\ botVc' = v
  /\ UNCHANGED <<storeVars, localVars, taskVars, playing, delivers, loopVars, last, hist>>

\* the player starts or stops reporting "playing"
EnvPlaying ==
  /\ playing' = ~playing
  /\ UNCHANGED <<storeVars, localVars, taskVars, botVc, delivers, loopVars, last, hist>>

\* SUMMON_GRACE_SECONDS pass (2 -> 1), then HOME_GRACE_SECONDS (1 -> 0)
GraceExpires ==
  /\ grace > 0
  /\ grace' = grace - 1
  /\ UNCHANGED <<storeVars, stations_cache, taskVars, envVars, last, hist>>

\* ------------------------------------------------------------------------
\* Invocation contexts used by the specifications
\* ------------------------------------------------------------------------
\* the operator, typing in T1 while connected to V1
Operator == [author |-> "owner", guild |-> "G1", channel |-> "T1", voice |-> "V1"]

\* the operator connected to the other voice channel of the guild
OperatorAway == [author |-> "owner", guild |-> "G1", channel |-> "T1", voice |-> "V2"]

\* somebody else in the same channels
Outsider == [author |-> "other", guild |-> "G1", channel |-> "T1", voice |-> "V1"]

\* the operator typing outside the control channel
OperatorOffChannel == [author |-> "owner", guild |-> "G1", channel |-> "T2", voice |-> "V1"]

\* the operator not connected to voice
OperatorNoVoice == [author |-> "owner", guild |-> "G1", channel |-> "T1", voice |-> NONE]

\* callers outside the perimeter drawn by Operator's binding
Violators == {OperatorAway, OperatorOffChannel, OperatorNoVoice, Outsider}

\* inputs that a handler does not read are fixed, so that one behaviour of the
\* code is one step of the model
DiscOutcomes == IF botVc = NONE THEN {TRUE} ELSE BOOLEAN

AllOk == [i \in 1..3 |-> TRUE]

\* the resume chain stops at its first play that works, the radio restore
\* makes one play: outcomes that differ in what the handler reads
PlayOutcomesFor(mode, summonOk) ==
  IF summonOk /\ mode \in {"resume", "full"}
    THEN {oks \in PlayOutcomes : \A i \in 1..2 : oks[i] => oks[i + 1]}
  ELSE IF summonOk /\ mode = "radio"
    THEN {oks \in PlayOutcomes : oks[2] /\ oks[3]}
  ELSE {AllOk}

SummonOutcomesFor(mode) == IF mode = "other" THEN {TRUE} ELSE BOOLEAN

\* handler invocations are interchangeable: a new one takes the first free slot
FreeTripwire == {t \in Tripwires : pc[t] = "idle" /\ \A u \in Tripwires : pc[u] = "idle" => t <= u}

AutopanicEnterAny == \E t \in Tasks, discOk \in DiscOutcomes : AutopanicEnter(t, discOk)

AutopanicExitAny == \E t \in Tasks : AutopanicExit(t)

WatchdogAny ==
  \E track \in TrackTexts, discOk \in DiscOutcomes : WatchdogTick(TrackBlocked(track), discOk)

\* ------------------------------------------------------------------------
\* SpecAuto: a bound system in normal posture, with something or nothing
\* playing; anybody drives the external player and the watchdog polls, so
\* triggers of the automatic panic overlap
\* ------------------------------------------------------------------------
\* media and memory as left by: play-result of station 1; play-result of
\* station 2 followed by an in-perimeter video play; nothing played yet
StartMedia ==
  {[url |-> "U1", name |-> "N1", intent |-> FALSE, lname |-> "N1", lurl |-> "U1", lq |-> NONE,
    cache |-> <<StationN1, StationN2>>],
   [url |-> NONE, name |-> NONE, intent |-> TRUE, lname |-> "N2", lurl |-> "U2", lq |-> "Q1",
    cache |-> <<StationN1, StationN2>>],
   [url |-> NONE, name |-> NONE, intent |-> FALSE, lname |-> NONE, lurl |-> NONE, lq |-> NONE,
    cache |-> <<>>]}

\* the store after rrbind by Operator, the commands that produced m and, when
\* member is not NONE, rrsetdj of that member
BoundAs(m, member) ==
  /\ bound = TRUE
  /\ allowed_guild_id = Operator.guild
  /\ control_text_channel_id = Operator.channel
  /\ allowed_voice_channel_id = Operator.voice
  /\ bound_owner_user_id = Operator.author
  /\ panic_locked = FALSE
  /\ autopanic_enabled = TRUE
  /\ autopanic_reason = NONE
  /\ suspended = FALSE
  /\ suspend_reason = NONE
  /\ stream_url = m.url
  /\ station_name = m.name
  /\ last_station_name = m.lname
  /\ last_station_stream_url = m.lurl
  /\ audio_intent_active = m.intent
  /\ last_youtube_query = m.lq
  /\ panic_resume_kind = NONE
  /\ panic_resume_station_name = NONE
  /\ panic_resume_station_url = NONE
  /\ panic_resume_youtube_query = NONE
  /\ dj_user_id = member
  /\ stations_cache = m.cache
  /\ grace = 0
  /\ autopanic_lock = FALSE
  /\ pc = [t \in Tasks |-> "idle"]
  /\ treason = [t \in Tasks |-> NONE]
  /\ snapping = [t \in Tasks |-> NoSnapshot]
  /\ last = Quiet

BoundWith(m) == BoundAs(m, NONE)

InitAuto ==
  /\ \E m \in StartMedia : BoundWith(m)
  /\ hist = HistInit({"autopanic"})
  /\ hard_mode = TRUE
  /\ botVc = Operator.voice
  /\ playing = (stream_url # NONE \/ audio_intent_active)
  /\ delivers = AllDelivered
  /\ LoopIdle

AutoHard == \E mode \in HardModes : rrhard(Operator, mode)

\* what the perimeter check answers for the callers outside the perimeter
AutoVerdicts == {_audio_cmd_is_allowed(ctx) : ctx \in Violators}

\* of its caller the handler reads the answer of the perimeter check only
AutoTripwire ==
  \E t \in FreeTripwire, allowed \in AutoVerdicts, name \in AudioNames, discOk \in DiscOutcomes :
    Tripwire(t, NoCtx, allowed, name, NONE, discOk)

\* the operator clears the lockout and resumes; the player obeys
AutoUnlock == rrunlock(Operator, "resume", TRUE, AllOk)

\* the player loses its voice connection or is brought back
AutoEnvVoice == \E v \in {NONE, Operator.voice} : EnvVoice(v)

NextAuto ==
  \/ AutoHard
  \/ AutoUnlock
  \/ AutoTripwire
  \/ WatchdogAny
  \/ AutopanicEnterAny
  \/ AutopanicExitAny
  \/ AutoEnvVoice
  \/ EnvPlaying
  \/ GraceExpires

SpecAuto == InitAuto /\ [][NextAuto]_vars

\* ------------------------------------------------------------------------
\* SpecUnlock: the same bound system driven through panic and unlock: the
\* operator plays stations and video in the perimeter and panics by hand,
\* somebody outside the perimeter trips the automatic panic, and the operator
\* unlocks in every mode while the external player obeys or not
\* ------------------------------------------------------------------------
InitUnlock ==
  /\ \E m \in StartMedia : BoundWith(m)
  /\ hist = HistInit({"rrpanic", "rrunlock", "entered"})
  /\ hard_mode = TRUE
  /\ botVc = Operator.voice
  /\ playing = (stream_url # NONE \/ audio_intent_active)
  /\ delivers = AllDelivered
  /\ LoopIdle

UnlockPanic == \E ctx \in {Operator, OperatorAway}, discOk \in DiscOutcomes : rrpanic(ctx, discOk)

UnlockTripwire == \E t \in FreeTripwire, discOk \in DiscOutcomes : on_command(t, Outsider, "stop", NONE, discOk)

UnlockPlay == \E t \in FreeTripwire : on_command(t, Operator, "play", "Q1", TRUE)

UnlockStation == \E index \in 1..2 : playstation(Operator, index, TRUE)

UnlockUnlock ==
  \E mode \in UnlockModes : \E summonOk \in SummonOutcomesFor(mode) :
    \E oks \in PlayOutcomesFor(mode, summonOk) : rrunlock(Operator, mode, summonOk, oks)

UnlockAway == rrunlock(OperatorAway, "resume", TRUE, AllOk)

NextUnlock ==
  \/ UnlockPanic
  \/ UnlockTripwire
  \/ UnlockPlay
  \/ UnlockStation
  \/ UnlockUnlock
  \/ UnlockAway
  \/ WatchdogAny
  \/ AutopanicEnterAny
  \/ AutopanicExitAny
  \/ AutoEnvVoice
  \/ GraceExpires

SpecUnlock == InitUnlock /\ [][NextUnlock]_vars

\* ------------------------------------------------------------------------
\* SpecGate: from the registered defaults, the operator binds from the
\* control channel and the voice channel of Operator; after that every owner
\* command is typed from every context, while the triggers of the automatic
\* panic and the external player go on
\* ------------------------------------------------------------------------
\* the operator typing in another guild
OperatorElsewhere == [author |-> "owner", guild |-> "G2", channel |-> "T3", voice |-> NONE]

GateContexts == {Operator, OperatorAway, OperatorOffChannel, OperatorNoVoice, OperatorElsewhere, Outsider}

GateBind == \E ctx \in {Operator, OperatorNoVoice} : rrbind(ctx)

GatePanic == \E ctx \in GateContexts, discOk \in DiscOutcomes : rrpanic(ctx, discOk)

GateSuspend == \E ctx \in GateContexts, discOk \in DiscOutcomes : rrsuspend(ctx, discOk)

GateResume == \E ctx \in GateContexts : rrresume(ctx)

GateHard == \E ctx \in GateContexts, mode \in {"on", "off"} : rrhard(ctx, mode)

GateStatus == \E ctx \in GateContexts : rrstatus(ctx)

GateSetDj == \E ctx \in GateContexts, member \in Members : rrsetdj(ctx, member)

GateControl == \E ctx \in GateContexts : rrcontrol(ctx, Operator.channel)

\* the mode and the summon are read once the presence check has passed
GateUnlock ==
  \E ctx \in GateContexts :
    \E mode \in (IF _require_owner_in_allowed_vc(ctx) = "ok" THEN {"", "resume"} ELSE {""}),
       summonOk \in (IF _require_owner_in_allowed_vc(ctx) = "ok" THEN BOOLEAN ELSE {TRUE}) :
      rrunlock(ctx, mode, summonOk, AllOk)

GateHome == \E ctx \in GateContexts : rrhome(ctx, TRUE)

GateSearch == \E ctx \in GateContexts : searchstations(ctx, <<StationN1, StationN2>>)

GatePlay == \E ctx \in GateContexts : playstation(ctx, 1, TRUE)

GateRestore == \E ctx \in GateContexts : rrrestore(ctx, TRUE)

GateStop == \E ctx \in GateContexts : stopstation(ctx)

\* the gate stops a watched command (stopping another one leaves no trace)
GateDeny == \E ctx \in GateContexts, cmd \in hist.watch : GateDenied(cmd, ctx)

GateTripwire == \E t \in FreeTripwire, discOk \in DiscOutcomes : on_command(t, Outsider, "stop", NONE, discOk)

NextGate ==
  \/ GateBind
  \/ GatePanic
  \/ GateSuspend
  \/ GateResume
  \/ GateHard
  \/ GateStatus
  \/ GateSetDj
  \/ GateControl
  \/ GateUnlock
  \/ GateHome
  \/ GateSearch
  \/ GatePlay
  \/ GateRestore
  \/ GateStop
  \/ GateDeny
  \/ GateTripwire
  \/ WatchdogAny
  \/ AutopanicEnterAny
  \/ AutopanicExitAny
  \/ AutoEnvVoice
  \/ GraceExpires

SpecGate == Init /\ [][NextGate]_vars

\* ------------------------------------------------------------------------
\* SpecChannel: the commands of SpecGate typed from every context and the
\* player's commands typed outside the perimeter, with one tripwire handler,
\* no watchdog and a player that moves only when told
\* ------------------------------------------------------------------------
ChannelTripwire ==
  \E ctx \in {Outsider, OperatorAway}, name \in AudioNames, discOk \in DiscOutcomes :
    on_command(1, ctx, name, NONE, discOk)

ChannelExit == AutopanicExit(1)

NextChannel ==
  \/ ChannelTripwire
  \/ ChannelExit
  \/ GateBind
  \/ GatePanic
  \/ GateSuspend
  \/ GateResume
  \/ GateHard
  \/ GateStatus
  \/ GateSetDj
  \/ GateControl
  \/ GateUnlock
  \/ GateHome
  \/ GateSearch
  \/ GatePlay
  \/ GateRestore
  \/ GateStop
  \/ GateDeny

SpecChannel == Init /\ [][NextChannel]_vars

\* ------------------------------------------------------------------------
\* SpecPresence: the bound system; the operator types the control actions
\* while connected to the registered voice channel or to the other one
\* ------------------------------------------------------------------------
ControlCommands == {"rrhome", "searchstations", "playstation", "stopstation", "rrpanic",
                    "rrsuspend", "rrunlock", "rrcontrol"}

InitPresence ==
  /\ \E m \in StartMedia : BoundWith(m)
  /\ hist = HistInit(ControlCommands)
  /\ hard_mode = TRUE
  /\ botVc = Operator.voice
  /\ playing = (stream_url # NONE \/ audio_intent_active)
  /\ delivers = AllDelivered
  /\ LoopIdle

\* a control action typed by ctx, run by its handler
ControlAction(ctx) ==
  \/ rrhome(ctx, TRUE)
  \/ searchstations(ctx, <<StationN1, StationN2>>)
  \/ playstation(ctx, 1, TRUE)
  \/ stopstation(ctx)
  \/ \E discOk \in BOOLEAN : rrpanic(ctx, discOk)
  \/ \E discOk \in BOOLEAN : rrsuspend(ctx, discOk)
  \/ \E mode \in {"", "resume"}, summonOk \in BOOLEAN : rrunlock(ctx, mode, summonOk, AllOk)
  \/ rrcontrol(ctx, Operator.channel)

\* a control action typed by ctx, stopped by the gate
ControlDenied(ctx) == \E cmd \in ControlCommands : GateDenied(cmd, ctx)

PresenceHome == \E ctx \in {Operator, OperatorAway} : rrhome(ctx, TRUE)

PresenceSearch == \E ctx \in {Operator, OperatorAway} : searchstations(ctx, <<StationN1, StationN2>>)

PresencePlay == \E ctx \in {Operator, OperatorAway} : playstation(ctx, 1, TRUE)

PresenceStop == \E ctx \in {Operator, OperatorAway} : stopstation(ctx)

PresencePanic == \E ctx \in {Operator, OperatorAway}, discOk \in DiscOutcomes : rrpanic(ctx, discOk)

PresenceSuspend == \E ctx \in {Operator, OperatorAway}, discOk \in DiscOutcomes : rrsuspend(ctx, discOk)

PresenceUnlock ==
  \E ctx \in {Operator, OperatorAway}, mode \in {"", "resume"}, summonOk \in BOOLEAN :
    rrunlock(ctx, mode, summonOk, AllOk)

PresenceControl == \E ctx \in {Operator, OperatorAway} : rrcontrol(ctx, Operator.channel)

PresenceDeny == \E ctx \in {Operator, OperatorAway} : ControlDenied(ctx)

NextPresence ==
  \/ PresenceHome
  \/ PresenceSearch
  \/ PresencePlay
  \/ PresenceStop
  \/ PresencePanic
  \/ PresenceSuspend
  \/ PresenceUnlock
  \/ PresenceControl
  \/ PresenceDeny
  \/ AutoEnvVoice
  \/ GraceExpires

SpecPresence == InitPresence /\ [][NextPresence]_vars

\* ------------------------------------------------------------------------
\* SpecFaults: the bound system with a fixed set of deliveries out of order
\* (presence update, audit channel, control-channel notification), while the
\* disconnect and the external player obey or not: the operator panics,
\* suspends, resumes and unlocks, and an outsider trips the automatic panic,
\* one handler at a time
\* ------------------------------------------------------------------------
InitFaults ==
  /\ \E m \in StartMedia : BoundWith(m)
  /\ hist = HistInit({"rrpanic", "rrsuspend", "rrresume", "rrunlock", "autopanic"})
  /\ hard_mode = TRUE
  /\ botVc = Operator.voice
  /\ playing = (stream_url # NONE \/ audio_intent_active)
  /\ delivers \in Deliveries
  /\ LoopIdle

FaultsPanic == \E discOk \in DiscOutcomes : rrpanic(Operator, discOk)

FaultsSuspend == \E discOk \in DiscOutcomes : rrsuspend(Operator, discOk)

FaultsResume == rrresume(Operator)

FaultsUnlock ==
  \E mode \in {"", "resume", "radio"}, summonOk \in BOOLEAN :
    \E oks \in PlayOutcomesFor(mode, summonOk) : rrunlock(Operator, mode, summonOk, oks)

FaultsStation == playstation(Operator, 1, TRUE)

FaultsTripwire == \E discOk \in DiscOutcomes : on_command(1, Outsider, "stop", NONE, discOk)

NextFaults ==
  \/ FaultsPanic
  \/ FaultsSuspend
  \/ FaultsResume
  \/ FaultsUnlock
  \/ FaultsStation
  \/ FaultsTripwire
  \/ AutopanicExitAny

SpecFaults == InitFaults /\ [][NextFaults]_vars

\* ------------------------------------------------------------------------
\* SpecMedia: from the registered defaults the operator binds, looks stations
\* up and drives the radio and the external player from inside the
\* perimeter, with every posture command in between; the external player
\* obeys or not, moves and stops by itself, and the watchdog polls
\* ------------------------------------------------------------------------
\* every play fails
NoneOk == [i \in 1..3 |-> FALSE]

MediaBind == rrbind(Operator)

MediaSearch == searchstations(Operator, <<StationN1, StationN2>>)

MediaStation == \E index \in 1..2, playOk \in BOOLEAN : playstation(Operator, index, playOk)

MediaRestore == \E playOk \in BOOLEAN : rrrestore(Operator, playOk)

MediaHome == \E summonOk \in BOOLEAN : rrhome(Operator, summonOk)

MediaStop == stopstation(Operator)

\* the operator plays a video with the external player, in the perimeter
MediaPlay == \E text \in PlayTexts : on_command(1, Operator, "play", text, TRUE)

MediaSuspend == \E discOk \in DiscOutcomes : rrsuspend(Operator, discOk)

MediaResume == rrresume(Operator)

MediaPanic == \E discOk \in DiscOutcomes : rrpanic(Operator, discOk)

MediaUnlock ==
  \E mode \in {"", "home", "resume", "radio", "other"} : \E summonOk \in SummonOutcomesFor(mode) :
    \E oks \in (IF summonOk /\ mode \in {"resume", "radio"} THEN {AllOk, NoneOk} ELSE {AllOk}) :
      rrunlock(Operator, mode, summonOk, oks)

NextMedia ==
  \/ MediaBind
  \/ MediaSearch
  \/ MediaStation
  \/ MediaRestore
  \/ MediaHome
  \/ MediaStop
  \/ MediaPlay
  \/ MediaSuspend
  \/ MediaResume
  \/ MediaPanic
  \/ MediaUnlock
  \/ WatchdogAny
  \/ AutopanicExitAny
  \/ AutoEnvVoice
  \/ EnvPlaying
  \/ GraceExpires

InitMedia ==
  /\ Registered
  /\ hist = HistInit({"rrunlock", "rrrestore"})

SpecMedia == InitMedia /\ [][NextMedia]_vars

\* ------------------------------------------------------------------------
\* SpecRace: a bound system in hard mode where the automatic panic of the
\* tripwire runs await by await next to the operator's commands.
\* ------------------------------------------------------------------------
InitRace ==
  /\ \E m \in StartMedia : BoundWith(m)
  /\ hist = HistInit({"rrpanic", "autopanic", "entered"})
  /\ hard_mode = TRUE
  /\ botVc = Operator.voice
  /\ playing = (stream_url # NONE \/ audio_intent_active)
  /\ delivers = AllDelivered
  /\ LoopIdle

\* on_command for "stop" typed by Outsider, up to the check of panic_locked
\* under the mutex
RaceTripwire ==
  /\ ~_audio_cmd_is_allowed(Outsider)
  /\ _any_active
  /\ hard_mode
  /\ _autopanic_check(RaceTask, "stop")

RaceSnapshot == _autopanic_snapshot(RaceTask)

RaceFlags == _autopanic_flags(RaceTask)

RaceClear == \E discOk \in DiscOutcomes : _autopanic_clear(RaceTask, discOk)

RaceExit == AutopanicExit(RaceTask)

RacePanic == \E discOk \in DiscOutcomes : rrpanic(Operator, discOk)

RaceUnlock == \E mode \in {"", "resume"} : rrunlock(Operator, mode, TRUE, AllOk)

RaceStation == \E index \in 1..2 : playstation(Operator, index, TRUE)

NextRace ==
  \/ RaceTripwire
  \/ RaceSnapshot
  \/ RaceFlags
  \/ RaceClear
  \/ RaceExit
  \/ RacePanic
  \/ RaceUnlock
  \/ RaceStation

SpecRace == InitRace /\ [][NextRace]_vars

\* ------------------------------------------------------------------------
\* SpecSnapshot: the system of SpecRace with the snapshot of the automatic
\* panic written field by field
\* ------------------------------------------------------------------------
SnapshotKind == _snapshot_kind(RaceTask)

SnapshotRest == _snapshot_rest(RaceTask)

NextSnapshot ==
  \/ RaceTripwire
  \/ SnapshotKind
  \/ SnapshotRest
  \/ RaceFlags
  \/ RaceClear
  \/ RaceExit
  \/ RacePanic
  \/ RaceUnlock
  \/ RaceStation

SpecSnapshot == InitRace /\ [][NextSnapshot]_vars

\* ------------------------------------------------------------------------
\* SpecReassure: a bound system with a protected user; the scheduler ticks
\* while the user, the external player and the operator move
\* ------------------------------------------------------------------------
\* ticks of the scheduler in one run
MaxReassureTicks == 12

\* configured cadences, in seconds: unset, under the floor, over the floor
InIntervals == {0, 5, 45}

OutIntervals == {0, 90}

\* the protected user typing in the control channel
Dj == [author |-> "dj", guild |-> "G1", channel |-> "T1", voice |-> NONE]

\* the reassurance scheduler right after start, with the given settings
LoopStart(cfg) ==
  /\ now = BootClock
  /\ settings = cfg
  /\ _dj_in_vc_since_monotonic = 0
  /\ _last_sleep_reminder_monotonic = 0
  /\ _sleep_reminder_count = 0
  /\ _sleep_final_sent = FALSE
  /\ _last_reassure_in_vc_ts = 0
  /\ _last_reassure_out_vc_ts = 0
  /\ rpc = "sleeping"
  /\ unloading = FALSE
  /\ heard = Silence

InitReassure ==
  /\ \E m \in StartMedia : BoundAs(m, "dj")
  /\ hard_mode = FALSE
  /\ botVc = Operator.voice
  /\ playing = FALSE
  /\ delivers = AllDelivered
  /\ djVoice = NONE
  /\ \E i \in InIntervals, o \in OutIntervals :
       LoopStart([DefaultSettings EXCEPT !.reassure_interval_in_vc_sec = i,
                                         !.reassure_interval_out_vc_sec = o])
  /\ hist = HistInit({})

ReassureRuns == now < BootClock + MaxReassureTicks * REASSURE_TICK /\ ReassureTick

\* the people and the external player are looked at every n ticks
Every(n) == (now - BootClock) % (n * REASSURE_TICK) = 0

ReassureDj == Every(3) /\ \E v \in {NONE, "V1", "V2"} : DjMoves(v)

ReassureVoice == Every(3) /\ \E v \in {NONE, "V1"} : EnvVoice(v)

ReassureStop == Every(3) /\ stopstation(Operator)

ReassurePlaying == Every(3) /\ EnvPlaying

NextReassure == ReassureRuns \/ ReassureDj \/ ReassureVoice \/ ReassureStop \/ ReassurePlaying

SpecReassure == InitReassure /\ [][NextReassure]_vars

\* ------------------------------------------------------------------------
\* Properties of the reassurance scheduler (SpecReassure, SpecSleep)
\* ------------------------------------------------------------------------
\* C22: two consecutive "user present" messages are at least
\* max(configured in-channel interval, 30) seconds apart, and two consecutive
\* "user elsewhere" messages at least max(configured out-of-channel interval,
\* 60) seconds apart
C22_CadenceFloor ==
  /\ heard.inPrev > 0
       => heard.inAt - heard.inPrev >= Max(settings.reassure_interval_in_vc_sec, 30)
  /\ heard.outPrev > 0
       => heard.outAt - heard.outPrev >= Max(settings.reassure_interval_out_vc_sec, 60)

\* with 5 seconds configured, a second "user present" message went out 30
\* seconds after the first one
C22_Witness ==
  /\ settings.reassure_interval_in_vc_sec = 5
  /\ heard.inVc
  /\ heard.inPrev > 0
  /\ heard.inAt - heard.inPrev = 30

\* ------------------------------------------------------------------------
\* SpecSleep: the bound system with a protected user and the sleep reminder
\* on; the user joins, leaves and acknowledges, the operator suspends the
\* system and brings the external player home
\* ------------------------------------------------------------------------
\* ticks of the scheduler in one run
MaxSleepTicks == 160

\* configured thresholds, in minutes: under and over the floor of the repeat
SleepThresholds == {1, 11}

\* a configured repeat interval under its floor of ten minutes
SleepRepeat == 5

\* k ticks after an instant that Every(n) selects
After(n, k) == (now - BootClock) % (n * REASSURE_TICK) = k * REASSURE_TICK

InitSleep ==
  /\ BoundAs(CHOOSE m \in StartMedia : m.url # NONE, "dj")
  /\ hard_mode = FALSE
  /\ botVc = Operator.voice
  /\ playing = TRUE
  /\ delivers = AllDelivered
  /\ djVoice = NONE
  /\ \E t \in SleepThresholds :
       LoopStart([DefaultSettings EXCEPT !.periodic_reassure_enabled = FALSE,
                                         !.dj_sleep_after_minutes = t,
                                         !.dj_sleep_repeat_minutes = SleepRepeat])
  /\ hist = HistInit({})

SleepRuns == now < BootClock + MaxSleepTicks * REASSURE_TICK /\ ReassureTick

\* the user joins the registered channel; an absence lasts long enough for
\* the scheduler to see it
SleepDj == (Every(30) /\ DjMoves(Operator.voice)) \/ (After(30, 15) /\ DjMoves(NONE))

SleepAck == Every(30) /\ imgoing(Dj)

SleepSuspend == Every(30) /\ \E discOk \in DiscOutcomes : rrsuspend(Operator, discOk)

SleepHome == After(30, 15) /\ \E summonOk \in BOOLEAN : rrhome(Operator, summonOk)

NextSleep == SleepRuns \/ SleepDj \/ SleepAck \/ SleepSuspend \/ SleepHome

SpecSleep == InitSleep /\ [][NextSleep]_vars

\* ------------------------------------------------------------------------
\* SpecFinal: the same start, over a run long enough for two rounds of three
\* reminders; the player stays home, the user joins, leaves and acknowledges
\* ------------------------------------------------------------------------
\* ticks of the scheduler in one run
MaxFinalTicks == 335

FinalRuns == now < BootClock + MaxFinalTicks * REASSURE_TICK /\ ReassureTick

FinalDj == SleepDj

FinalAck == SleepAck

NextFinal == FinalRuns \/ FinalDj \/ FinalAck

SpecFinal == InitSleep /\ [][NextFinal]_vars

\* a tick of the scheduler sent a sleep reminder to the protected user, who is
\* in a presence session
ReminderSent == now' # now /\ heard'.level > 0 /\ heard.joined > 0

\* C23: in one presence session no reminder comes before the presence has
\* lasted the threshold, consecutive reminders are at least the repeat
\* interval apart, and the k-th reminder of the session has level 1, 2, 3, 3,
\* ...; a new session starts again at level 1
C23_EscalationOrder ==
  [][ReminderSent =>
       /\ now' - heard.joined >= settings.dj_sleep_after_minutes * 60
       /\ heard.remAt > 0 => now' - heard.remAt >= Max(10, settings.dj_sleep_repeat_minutes) * 60
       /\ heard'.level = (IF heard'.k = 1 THEN 1 ELSE IF heard'.k = 2 THEN 2 ELSE 3)]_vars

\* C36: a departure of the user in any posture starts a new session: the
\* first reminder after the return comes no sooner than the threshold after
\* the return, has level 1, and finds the one-shot flag clear
C36_DepartureResets ==
  [][ReminderSent /\ heard.k = 0 =>
       /\ now' - heard.joined >= settings.dj_sleep_after_minutes * 60
       /\ heard'.level = 1
       /\ ~_sleep_final_sent]_vars

\* C24: while the user stays in the channel and the player stays home, the
\* final message goes out with the first level-3 reminder and never again
C24_FinalOnce ==
  [][ReminderSent /\ heard'.homeSince =>
       (heard'.final <=> (heard'.level = 3 /\ heard.finals = 0))]_vars

\* C25: the acknowledgment zeroes the reminder count and cools the timer down
\* at once; the next reminder comes no sooner than the threshold after the
\* acknowledgment, and has level 1
C25_AckCoolsDown ==
  [][/\ (heard'.ack > 0 /\ heard'.ack # heard.ack)
          => _sleep_reminder_count' = 0 /\ _last_sleep_reminder_monotonic' = now'
     /\ (ReminderSent /\ heard.ack > 0)
          => /\ now' - heard.ack >= settings.dj_sleep_after_minutes * 60
             /\ heard.afterAck = 0 => heard'.level = 1]_vars

\* after a reminder and an acknowledgment, with a threshold of eleven minutes,
\* the next reminder came eleven minutes after the acknowledgment, at level 1
C25_Witness ==
  /\ settings.dj_sleep_after_minutes = 11
  /\ heard.ack > 0
  /\ heard.afterAck = 1
  /\ heard.k = 2
  /\ heard.level = 1
  /\ heard.remAt = now
  /\ now - heard.ack = 11 * 60

\* ------------------------------------------------------------------------
\* SpecWatch: the system of SpecAuto with a watchdog whose passes can fail,
\* an operator who brings the player home, and the scheduling of the event
\* loop: the watchdog wakes again after every pass, a task that waits for the
\* mutex gets it in its turn, a task inside the mutex leaves it, time passes
\* ------------------------------------------------------------------------
InitWatch ==
  /\ \E m \in StartMedia : BoundWith(m)
  /\ hist = HistInit({"watchdog"})
  /\ hard_mode = TRUE
  /\ botVc = Operator.voice
  /\ playing = (stream_url # NONE \/ audio_intent_active)
  /\ delivers = AllDelivered
  /\ LoopIdle

WatchHome == \E summonOk \in BOOLEAN : rrhome(Operator, summonOk)

WatchStation == playstation(Operator, 1, TRUE)

WatchdogEnter == \E discOk \in DiscOutcomes : AutopanicEnter(WatchdogTask, discOk)

\* one handler of the tripwire competes with the watchdog for the mutex
WatchTripwire ==
  /\ pc[RaceTask] = "idle"
  /\ \E allowed \in AutoVerdicts, name \in AudioNames, discOk \in DiscOutcomes :
       Tripwire(RaceTask, NoCtx, allowed, name, NONE, discOk)

WatchEnter == \E discOk \in DiscOutcomes : AutopanicEnter(RaceTask, discOk)

NextWatch ==
  \/ WatchdogAny
  \/ WatchdogError
  \/ WatchdogEnter
  \/ WatchTripwire
  \/ WatchEnter
  \/ AutopanicExitAny
  \/ AutoUnlock
  \/ WatchHome
  \/ WatchStation
  \/ AutoEnvVoice
  \/ EnvPlaying
  \/ GraceExpires

SpecWatch ==
  /\ InitWatch
  /\ [][NextWatch]_vars
  /\ WF_vars(WatchdogAny)
  /\ SF_vars(WatchdogEnter)
  /\ WF_vars(AutopanicExitAny)
  /\ WF_vars(GraceExpires)

\* ------------------------------------------------------------------------
\* Properties of the background loops (SpecWatch, SpecUnload)
\* ------------------------------------------------------------------------
\* bound, not suspended, automatic panic on, something active, the player away
\* from the registered voice channel and no grace window open
Exposed ==
  /\ bound /\ ~suspended /\ autopanic_enabled /\ grace = 0
  /\ _radio_active \/ _audio_intent_active \/ playing
  /\ ~_bot_is_home

\* C21: an exposed system becomes Panicked, unless the exposure ends or a new
\* grace window opens first; passes of the watchdog that raised do not prevent
\* it
C21_WatchdogLiveness == Exposed ~> (panic_locked \/ ~Exposed)

\* the watchdog logged an error and a later pass panicked the exposed system
C21_Witness ==
  /\ hist.logged
  /\ panic_locked
  /\ autopanic_reason = "watchdog"
  /\ bound /\ ~suspended /\ autopanic_enabled /\ grace = 0 /\ ~_bot_is_home

\* ------------------------------------------------------------------------
\* SpecUnload: the system of SpecRace with both loops running, the watchdog
\* going through its automatic panic await by await, and cog_unload
\* ------------------------------------------------------------------------
\* ticks of the scheduler in one run
MaxUnloadTicks == 2

UnloadTick == now < BootClock + MaxUnloadTicks * REASSURE_TICK /\ ReassureTick

\* a pass of the watchdog that finds the system exposed, up to the check of
\* panic_locked under the mutex
UnloadWatchdog ==
  /\ ~unloading
  /\ bound /\ ~suspended /\ grace = 0 /\ allowed_guild_id # NONE
  /\ _any_active
  /\ ~_bot_is_home
  /\ _autopanic_check(WatchdogTask, "watchdog")

UnloadSnapshot == ~unloading /\ _autopanic_snapshot(WatchdogTask)

UnloadFlags == ~unloading /\ _autopanic_flags(WatchdogTask)

UnloadClear == ~unloading /\ \E discOk \in DiscOutcomes : _autopanic_clear(WatchdogTask, discOk)

UnloadExit == ~unloading /\ AutopanicExit(WatchdogTask)

NextUnload ==
  \/ cog_unload
  \/ _watchdog_cancelled
  \/ _reassure_cancelled
  \/ UnloadTick
  \/ UnloadWatchdog
  \/ UnloadSnapshot
  \/ UnloadFlags
  \/ UnloadClear
  \/ UnloadExit
  \/ RaceTripwire
  \/ RaceSnapshot
  \/ RaceFlags
  \/ RaceClear
  \/ RaceExit
  \/ RaceUnlock
  \/ RaceStation
  \/ AutoEnvVoice

SpecUnload ==
  /\ InitRace
  /\ [][NextUnload]_vars
  /\ WF_vars(_watchdog_cancelled)
  /\ WF_vars(_reassure_cancelled)

\* ------------------------------------------------------------------------
\* SpecMutex: the watchdog runs its automatic panic await by await and can be
\* cancelled; a handler of the tripwire queues on the mutex meanwhile; some
\* deliveries fail.  The event loop resumes every task whose await is over
\* and hands the mutex to a task that waits for it.
\* ------------------------------------------------------------------------
InitMutex ==
  /\ \E m \in StartMedia : BoundWith(m)
  /\ hist = HistInit({"autopanic"})
  /\ hard_mode = TRUE
  /\ botVc = Operator.voice
  /\ playing = (stream_url # NONE \/ audio_intent_active)
  /\ delivers \in {AllDelivered, [presence |-> FALSE, audit |-> FALSE, notify |-> FALSE]}
  /\ LoopIdle

NextMutex ==
  \/ cog_unload
  \/ _watchdog_cancelled
  \/ UnloadWatchdog
  \/ UnloadSnapshot
  \/ UnloadFlags
  \/ UnloadClear
  \/ UnloadExit
  \/ WatchTripwire
  \/ WatchEnter
  \/ RaceExit
  \/ RaceUnlock
  \/ RaceStation
  \/ AutoEnvVoice

SpecMutex ==
  /\ InitMutex
  /\ [][NextMutex]_vars
  /\ WF_vars(_watchdog_cancelled)
  /\ WF_vars(UnloadSnapshot)
  /\ WF_vars(UnloadFlags)
  /\ WF_vars(UnloadClear)
  /\ WF_vars(UnloadExit)
  /\ WF_vars(RaceExit)
  /\ SF_vars(WatchEnter)

\* C39: a held mutex is released; it is held only by a task inside its
\* automatic panic; the task inside never asks for the mutex again; and a
\* trigger that waits for the mutex gets it
C39_MutexReleased ==
  /\ autopanic_lock ~> ~autopanic_lock
  /\ [](autopanic_lock => \E t \in Tasks : InFlight(t))
  /\ [][\A t \in Tasks : InFlight(t) => pc'[t] # "waiting"]_vars
  /\ (pc[RaceTask] = "waiting") ~> (pc[RaceTask] # "waiting")

\* a handler of the tripwire that waited for the mutex holds it after the
\* watchdog was cancelled inside its automatic panic, with failing deliveries
C39_Witness ==
  /\ pc[WatchdogTask] = "done"
  /\ treason[WatchdogTask] = "watchdog"
  /\ pc[RaceTask] = "holding"
  /\ autopanic_lock
  /\ ~delivers.notify

\* C27: once cancelled, both loops end, wherever they were; a watchdog
\* cancelled inside an automatic panic leaves the mutex: after its end the
\* mutex is held only by a handler that is inside its own automatic panic
C27_CancelledLoopsEnd ==
  /\ unloading ~> (pc[WatchdogTask] = "done" /\ rpc = "done")
  /\ [](pc[WatchdogTask] = "done" /\ autopanic_lock => \E t \in Tripwires : InFlight(t))

\* both loops have ended, the watchdog was cancelled inside its automatic
\* panic, and the tripwire has taken the mutex since
C27_Witness ==
  /\ pc[WatchdogTask] = "done"
  /\ rpc = "done"
  /\ treason[WatchdogTask] = "watchdog"
  /\ autopanic_lock
  /\ InFlight(RaceTask)

\* ------------------------------------------------------------------------
\* Properties of the frame of the posture commands and of the tripwire
\* ------------------------------------------------------------------------
\* C31: a manual resume by a present operator clears the suspend flag and the
\* reason, sends nothing to the external player and leaves panic_locked, the
\* media state, the snapshot, the memory and the binding alone; when the
\* system is not suspended it changes nothing
C31_ManualResume ==
  [][(bound /\ _require_owner_in_allowed_vc(Operator) = "ok" /\ rrresume(Operator))
       => /\ suspended' = FALSE
          /\ suspend_reason' = NONE
          /\ last'.calls = <<>>
          /\ UNCHANGED <<panic_locked, autopanic_reason, mediaVars, snapshotVars, memoryVars,
                         bindingVars, botVc, playing, grace>>
          /\ ~suspended => UNCHANGED <<storeVars, localVars, taskVars, envVars, hist>>]_vars

\* the operator has resumed a suspended system
C31_Witness ==
  /\ last.op = "rrresume"
  /\ last.res = "ok"
  /\ ~suspended
  /\ suspend_reason = NONE
  /\ ~panic_locked

\* the terms block_tags_csv stands for, as a reader of the setting sees them
ConfiguredTerms == {<<"n", "s">>, <<"a", "b">>}

\* a configured term occurs in the text, capitals and small letters alike
HasTerm(text) ==
  \E term \in ConfiguredTerms : \E i \in 1..Len(text) :
    \A j \in 1..Len(term) : i + j - 1 <= Len(text) /\ Lower(text[i + j - 1]) = Lower(term[j])

\* the watchdog is past its guards: bound, normal posture, past the grace
\* window, something active, the player home
PastGuards ==
  /\ bound /\ ~panic_locked /\ ~suspended /\ grace = 0 /\ allowed_guild_id # NONE
  /\ (stream_url # NONE /\ station_name # NONE) \/ audio_intent_active \/ playing
  /\ botVc # NONE /\ botVc = allowed_voice_channel_id

C33_PrePlayFilter ==
  [][\A text \in PlayTexts :
       (_audio_cmd_is_allowed(Operator) /\ on_command(1, Operator, "play", text, TRUE))
         => IF HasTerm(TextOf(text))
              THEN /\ audio_intent_active' = FALSE
                   /\ UNCHANGED <<last_youtube_query, stream_url, station_name,
                                  last_station_name, last_station_stream_url>>
              ELSE /\ (stream_url # NONE /\ station_name # NONE)
                        => last_station_name' = station_name /\ last_station_stream_url' = stream_url
                   /\ stream_url' = NONE /\ station_name' = NONE
                   /\ audio_intent_active' = TRUE
                   /\ last_youtube_query' = text]_vars

\* a video was started over a playing station: the station is in the memory
C33_Witness ==
  /\ audio_intent_active
  /\ last_youtube_query = "Q1"
  /\ stream_url = NONE /\ station_name = NONE
  /\ last_station_name = "N2"
  /\ ~panic_locked

\* ------------------------------------------------------------------------
\* SpecSummon: the bound system; the operator and an outsider use the summon,
\* disconnect and stop commands of the external player, the operator brings
\* the player home, panics and unlocks, the player drops out by itself and
\* the grace windows run out
\* ------------------------------------------------------------------------
InitSummon ==
  /\ \E m \in StartMedia : BoundWith(m)
  /\ hist = HistInit({"rrhome", "rrunlock", "summon"})
  /\ \E h \in BOOLEAN : hard_mode = h
  /\ botVc = Operator.voice
  /\ playing = (stream_url # NONE \/ audio_intent_active)
  /\ delivers = AllDelivered
  /\ LoopIdle

SummonNames == AUDIO_SUMMON_ALIASES \cup AUDIO_DISCONNECT_ALIASES \cup AUDIO_STOP_ALIASES

SummonTripwire ==
  \E ctx \in {Operator, Outsider}, name \in SummonNames, discOk \in DiscOutcomes :
    on_command(RaceTask, ctx, name, NONE, discOk)

SummonExit == AutopanicExit(RaceTask)

SummonHome == \E summonOk \in BOOLEAN : rrhome(Operator, summonOk)

SummonUnlock ==
  \E mode \in {"home", "other"} : \E summonOk \in SummonOutcomesFor(mode) :
    rrunlock(Operator, mode, summonOk, AllOk)

SummonPanic == \E discOk \in DiscOutcomes : rrpanic(Operator, discOk)

SummonResume == rrresume(Operator)

NextSummon ==
  \/ SummonTripwire
  \/ SummonExit
  \/ SummonHome
  \/ SummonUnlock
  \/ SummonPanic
  \/ SummonResume
  \/ RaceStation
  \/ AutoEnvVoice
  \/ GraceExpires

SpecSummon == InitSummon /\ [][NextSummon]_vars

\* C34: the summon grace window is opened by a home action only (home, or an
\* unlock that homes); inside it a summon is ignored by the tripwire; outside
\* it a summon that fails the perimeter check while something is active is a
\* violation: panic in hard mode, suspension in soft mode
C34_SummonGrace ==
  [][/\ grace' > grace => last'.op \in {"rrhome", "rrunlock"}
     /\ \A discOk \in BOOLEAN :
          (/\ on_command(RaceTask, Outsider, "summon", NONE, discOk)
           /\ ~_audio_cmd_is_allowed(Outsider)
           /\ (stream_url # NONE /\ station_name # NONE) \/ audio_intent_active \/ playing)
            => IF grace = 2
                 THEN UNCHANGED <<postureVars, mediaVars, snapshotVars, taskVars>>
               ELSE IF hard_mode
                 THEN autopanic_enabled /\ ~autopanic_lock => panic_locked'
               ELSE suspended']_vars

\* ------------------------------------------------------------------------
\* SpecBinding: from the registered store the operator binds, binds again
\* from another voice channel, re-keys the control channel, and uses the
\* posture commands; the tripwire, the watchdog and the scheduler run
\* ------------------------------------------------------------------------
BindingContexts == {Operator, OperatorAway, OperatorOffChannel, OperatorNoVoice}

InitBinding ==
  \/ /\ Registered
     /\ hist = HistInit({})
  \/ /\ BoundWith(CHOOSE m \in StartMedia : m.url # NONE)
     /\ hist = HistInit({})
     /\ hard_mode = TRUE
     /\ botVc = Operator.voice
     /\ playing = (stream_url # NONE \/ audio_intent_active)
     /\ delivers = AllDelivered
     /\ LoopIdle

BindingBind == \E ctx \in BindingContexts : rrbind(ctx)

\* rrcontrol [channel]: the channel given, or the one the command is typed in
BindingControl ==
  \E ctx \in BindingContexts, channel \in {NONE, "T1", "T2"} :
    rrcontrol(ctx, IF channel = NONE THEN ctx.channel ELSE channel)

BindingPanic == \E discOk \in DiscOutcomes : rrpanic(Operator, discOk)

BindingSuspend == \E discOk \in DiscOutcomes : rrsuspend(Operator, discOk)

BindingResume == rrresume(Operator)

BindingUnlock ==
  \E mode \in {"home", "other"} : \E summonOk \in SummonOutcomesFor(mode) :
    rrunlock(Operator, mode, summonOk, AllOk)

NextBinding ==
  \/ BindingBind
  \/ BindingControl
  \/ BindingPanic
  \/ BindingSuspend
  \/ BindingResume
  \/ BindingUnlock
  \/ WatchStation
  \/ WatchTripwire
  \/ WatchEnter
  \/ WatchdogAny
  \/ WatchdogEnter
  \/ AutopanicExitAny
  \/ UnloadTick
  \/ AutoEnvVoice
  \/ GraceExpires

SpecBinding == InitBinding /\ [][NextBinding]_vars

\* C35: the registered guild, the locked voice channel, the operator id and
\* the bound flag change in a binding step of rrbind only; the control channel
\* changes in a step of rrbind or rrcontrol only; a re-key changes no other
\* field of the binding; the bound flag, once set, is never reset
C35_BindingImmutable ==
  [][/\ <<bound, allowed_guild_id, allowed_voice_channel_id, bound_owner_user_id>>'
          # <<bound, allowed_guild_id, allowed_voice_channel_id, bound_owner_user_id>>
        => \E ctx \in BindingContexts : ctx.voice # NONE /\ rrbind(ctx)
     /\ control_text_channel_id' # control_text_channel_id
        => \/ \E ctx \in BindingContexts : ctx.voice # NONE /\ rrbind(ctx)
           \/ \E ctx \in BindingContexts, target \in {"T1", "T2"} : rrcontrol(ctx, target)
     /\ (\E ctx \in BindingContexts, target \in {"T1", "T2"} : rrcontrol(ctx, target))
        => UNCHANGED <<bound, allowed_guild_id, allowed_voice_channel_id, bound_owner_user_id>>
     /\ bound => bound']_vars

\* a system bound a second time from the other voice channel and re-keyed to
\* the other text channel, after a panic
C35_Witness ==
  /\ bound
  /\ allowed_voice_channel_id = OperatorAway.voice
  /\ control_text_channel_id = OperatorOffChannel.channel
  /\ panic_locked

\* ------------------------------------------------------------------------
\* SpecSelf: the protected user, in the registered guild or in another one,
\* the operator and an outsider type the self-service commands in every
\* posture, while the scheduler ticks and the operator binds, names the
\* protected user, panics, suspends and unlocks
\* ------------------------------------------------------------------------
\* the protected user typing in another guild
DjAbroad == [author |-> "dj", guild |-> "G2", channel |-> "T1", voice |-> NONE]

SelfContexts == {Dj, DjAbroad, Operator, Outsider}

InitSelf ==
  \/ /\ Registered
     /\ hist = HistInit(DjCommands)
  \/ /\ BoundAs(CHOOSE m \in StartMedia : m.url # NONE, "dj")
     /\ hist = HistInit(DjCommands)
     /\ hard_mode = TRUE
     /\ botVc = Operator.voice
     /\ playing = (stream_url # NONE \/ audio_intent_active)
     /\ delivers = AllDelivered
     /\ LoopIdle

SelfRequest == \E ctx \in SelfContexts, cmd \in {"djradio", "djyoutube"} : DjCommand(ctx, cmd)

SelfAck == \E ctx \in SelfContexts : imgoing(ctx)

SelfBind == rrbind(Operator)

SelfSetDj == \E member \in {"dj", "other"} : rrsetdj(Operator, member)

SelfPanic == rrpanic(Operator, TRUE)

SelfSuspend == rrsuspend(Operator, TRUE)

SelfUnlock == rrunlock(Operator, "resume", TRUE, AllOk)

SelfDj == \E v \in {NONE, Operator.voice} : DjMoves(v)

NextSelf ==
  \/ SelfRequest
  \/ SelfAck
  \/ SelfBind
  \/ SelfSetDj
  \/ SelfPanic
  \/ SelfSuspend
  \/ SelfUnlock
  \/ SelfDj
  \/ UnloadTick

SpecSelf == InitSelf /\ [][NextSelf]_vars

\* C40: a self-service command is taken from the protected user in the
\* registered guild only; the command, and a tick of the scheduler, leave the
\* binding, the posture, the media state, the snapshot and the memory alone
\* and do nothing to the external player
C40_SelfServiceFrame ==
  [][/\ \A ctx \in SelfContexts :
          (imgoing(ctx) \/ \E cmd \in {"djradio", "djyoutube"} : DjCommand(ctx, cmd))
            => /\ dj_user_id # NONE /\ ctx.author = dj_user_id
               /\ ctx.guild = allowed_guild_id
               /\ last'.calls = <<>>
               /\ UNCHANGED <<bindingVars, postureVars, mediaVars, memoryVars, snapshotVars,
                              botVc, playing>>
     /\ ReassureTick
          => UNCHANGED <<bindingVars, postureVars, mediaVars, memoryVars, snapshotVars,
                         botVc, playing>>]_vars

\* the protected user's request for a video was taken while the system was
\* Panicked with a snapshot, and the scheduler has ticked
C40_Witness ==
  /\ last.op = "djyoutube" /\ last.res = "ok"
  /\ panic_locked
  /\ Snapshot # NoSnapshot
  /\ now > BootClock

\* ------------------------------------------------------------------------
\* Properties of the automatic panic (SpecAuto)
\* ------------------------------------------------------------------------
\* a step in which a trigger went through the critical section
TriggerRan == last' # last /\ last'.op = "autopanic" /\ last'.res \in {"committed", "already_locked"}

\* C1: of the automatic-panic triggers that run from a normal posture, exactly
\* one commits the Panicked transition (snapshot, panic_locked, reason); every
\* other one finds the lockout under the mutex and returns without writing; and
\* the recorded reason is that of the first trigger that got the mutex.
C1_OneCommit ==
  /\ [](hist.commits <= 1)
  /\ [](hist.firstAcq # NONE =>
          /\ hist.commits = 1
          /\ panic_locked
          /\ autopanic_reason = hist.firstAcq)
  /\ [][TriggerRan =>
          IF panic_locked
            THEN last'.res = "already_locked" /\ UNCHANGED <<storeVars, envVars>>
            ELSE /\ last'.res = "committed"
                 /\ panic_locked'
                 /\ autopanic_reason' = hist'.firstAcq
                 /\ Snapshot' = _snapshot_for_panic]_vars

\* two triggers have been through the mutex: one committed, the other one,
\* with a different reason, returned
C1_Witness ==
  /\ hist.commits = 1
  /\ panic_locked
  /\ last.op = "autopanic"
  /\ last.res = "already_locked"
  /\ autopanic_reason = "watchdog"
  /\ \A t \in Tasks : pc[t] = "idle"

\* the Panicked posture entered from radio (station_name, stream_url)
RadioPanicEntered ==
  /\ panic_locked'
  /\ stream_url' = NONE
  /\ station_name' = NONE
  /\ ~audio_intent_active'
  /\ panic_resume_kind' = "radio"
  /\ panic_resume_station_name' = station_name
  /\ panic_resume_station_url' = stream_url

\* C7: with a station (N, U) active in a bound, non-panicked system in hard
\* mode, a stop command to the external player from outside the perimeter
\* (wrong caller, wrong text channel, caller in another voice channel or in
\* none: each fails the perimeter check) ends with panic_locked, radio state
\* and audio intent cleared, and the snapshot of kind radio holding (N, U).
\* When another trigger still holds the mutex, the handler queues with its
\* reason, and the same holds of the step in which it gets the mutex with the
\* station still active.
C7_StopOutsidePanics ==
  /\ [](bound => \A ctx \in Violators : ~_audio_cmd_is_allowed(ctx))
  /\ [][\A t \in Tripwires, discOk \in BOOLEAN :
          (/\ bound /\ ~panic_locked /\ hard_mode /\ _radio_active
           /\ Tripwire(t, NoCtx, FALSE, "stop", NONE, discOk))
            => IF autopanic_lock
                 THEN pc'[t] = "waiting" /\ treason'[t] = "stop" /\ UNCHANGED storeVars
                 ELSE RadioPanicEntered /\ autopanic_reason' = "stop"]_vars
  /\ [][\A t \in Tripwires, discOk \in BOOLEAN :
          (/\ ~panic_locked /\ _radio_active /\ treason[t] = "stop"
           /\ AutopanicEnter(t, discOk))
            => RadioPanicEntered /\ autopanic_reason' = "stop"]_vars

\* station 1 was active when the stop came in: the lockout holds it
C7_Witness ==
  /\ panic_locked
  /\ autopanic_reason = "stop"
  /\ last.op = "autopanic"
  /\ last.res = "committed"
  /\ Snapshot = [kind |-> "radio", name |-> "N1", url |-> "U1", query |-> NONE]
  /\ ~_radio_active
  /\ ~audio_intent_active

\* C8: a command to the external player that fails the perimeter check while
\* something is active is routed by hard_mode: on, the automatic panic runs
\* (the posture is Panicked after it, or the handler queues on the mutex);
\* off, the posture becomes Suspended with the command as reason, and
\* panic_locked and the snapshot stay as they were.  hard_mode is toggled by
\* rrhard only, in a step that changes nothing else of the posture (nor the
\* binding, the media state, the restore memory or the snapshot).
C8_HardSoftRouting ==
  /\ [](bound => \A ctx \in Violators : ~_audio_cmd_is_allowed(ctx))
  /\ [][\A t \in FreeTripwire, name \in AudioNames :
          (/\ bound /\ _any_active /\ hard_mode
           /\ ~(name \in AUDIO_SUMMON_ALIASES /\ grace = 2)
           /\ \E discOk \in DiscOutcomes : Tripwire(t, NoCtx, FALSE, name, NONE, discOk))
            => /\ UNCHANGED <<suspended, suspend_reason>>
               /\ IF autopanic_lock
                     THEN pc'[t] = "waiting" /\ treason'[t] = name
                     ELSE panic_locked']_vars
  /\ [][\A t \in FreeTripwire, name \in AudioNames :
          (/\ bound /\ _any_active /\ ~hard_mode
           /\ ~(name \in AUDIO_SUMMON_ALIASES /\ grace = 2)
           /\ Tripwire(t, NoCtx, FALSE, name, NONE, TRUE))
            => /\ suspended'
               /\ suspend_reason' = name
               /\ UNCHANGED <<panic_locked, autopanic_reason, snapshotVars, taskVars>>]_vars
  /\ [][hard_mode' # hard_mode
          => /\ \E mode \in {"on", "off"} : rrhard(Operator, mode)
             /\ UNCHANGED <<bindingVars, panic_locked, autopanic_enabled, autopanic_reason,
                            suspended, suspend_reason, mediaVars, memoryVars, snapshotVars>>]_vars

\* soft mode: a play from outside the perimeter suspended the system
C8_Witness ==
  /\ ~hard_mode
  /\ suspended
  /\ suspend_reason = "play"
  /\ ~panic_locked
  /\ _any_active
  /\ Snapshot = NoSnapshot

\* ------------------------------------------------------------------------
\* Properties of panic and unlock (SpecUnlock)
\* ------------------------------------------------------------------------
\* an unlock that got past the gate and the presence check
UnlockRan == last.op = "rrunlock" /\ last.res \in {"summon_failed", "unlocked", "resumed", "nothing_resumed"}

\* the unlock-with-resume of the round trip: present operator, the summon and
\* every play succeed
ResumeUnlock == \E mode \in {"resume", "full"} : rrunlock(Operator, mode, TRUE, AllOk)

\* C3: round trip.  A station (N, U) active when the posture entered Panicked
\* is replayed by the next unlock-with-resume of the present operator, which
\* ends with radio active as (N, U); a remembered query Q with audio intent
\* active (and no station) is replayed, and audio intent is active again.
C3_RoundTrip ==
  [][(panic_locked /\ ResumeUnlock)
       => /\ hist.entered.radio
               => /\ last'.calls = <<Call("summon", ""), Call("play", hist.entered.url)>>
                  /\ stream_url' = hist.entered.url
                  /\ station_name' = hist.entered.name
          /\ (~hist.entered.radio /\ hist.entered.intent /\ hist.entered.query # NONE)
               => /\ last'.calls = <<Call("summon", ""), Call("play", hist.entered.query)>>
                  /\ audio_intent_active']_vars

\* C4: an unlock that passed the presence check leaves the snapshot cleared,
\* whatever the mode and the outcome of the summon and of the replay
C4_SnapshotCleared == UnlockRan => Snapshot = NoSnapshot

\* C5: an unlock that directly follows an unlock changes neither the posture
\* nor the media state, the snapshot or the restore memory
C5_SecondUnlockNoOp ==
  [][(UnlockRan /\ \E mode \in UnlockModes, summonOk \in BOOLEAN, oks \in PlayOutcomes :
                      rrunlock(Operator, mode, summonOk, oks))
       => UNCHANGED <<postureVars, mediaVars, snapshotVars, memoryVars>>]_vars

\* ------------------------------------------------------------------------
\* Properties of the gate and of the presence check (SpecGate, SpecPresence)
\* ------------------------------------------------------------------------
\* the caller is the operator, typing in the registered guild while connected
\* to the registered voice channel
Present(ctx) ==
  /\ is_owner(ctx.author)
  /\ ctx.guild = allowed_guild_id
  /\ ctx.voice # NONE
  /\ ctx.voice = allowed_voice_channel_id

RecoveryAllowList == {"rrstatus", "rrunlock", "rrpanic", "rrcontrol", "rrhard"}

\* C9 as stated: while panic_locked is true, the gate lets an owner command
\* through only if it is in the recovery allow-list
C9_AllowListWhilePanicLocked ==
  panic_locked =>
    \A ctx \in GateContexts, cmd \in OwnerCommands :
      cog_check(ctx, cmd).pass => cmd \in RecoveryAllowList

\* C9, in a bound system: while panic_locked is true the gate lets an owner
\* command through only if it is in the recovery allow-list, it lets each of
\* these through for the operator in the control channel, and a command it
\* stops changes nothing.
C9_AllowListWhenBound ==
  /\ [](bound /\ panic_locked =>
          /\ \A ctx \in GateContexts, cmd \in OwnerCommands :
                cog_check(ctx, cmd).pass => cmd \in RecoveryAllowList
          /\ \A cmd \in RecoveryAllowList : cog_check(Operator, cmd).pass)
  /\ [][(bound /\ panic_locked /\ last' # last /\ last'.op \in OwnerCommands \ RecoveryAllowList)
          => /\ last'.res = "gate_denied"
             /\ UNCHANGED <<storeVars, localVars, taskVars, envVars>>]_vars

\* under the lockout the operator, in the perimeter, typed rrhome: denied
C9_Witness ==
  /\ bound
  /\ panic_locked
  /\ last.op = "rrhome"
  /\ last.res = "gate_denied"

\* the bypass set of the spec
RecoveryBypass == {"rrstatus", "rrunlock", "rrpanic", "rrsuspend", "rrresume", "rrhard", "rrcontrol"}

\* C11: when bound, the gate denies and audits an owner command from another
\* guild; from the registered guild but another text channel than the control
\* channel it denies and audits a command outside the bypass set, and answers
\* a command of the bypass set as it answers it in the control channel, with
\* no audit; the answer is the same whether the audit is delivered or not.
C11_GuildAndChannelRules ==
  bound =>
    \A ctx \in {c \in GateContexts : is_owner(c.author)}, cmd \in OwnerCommands :
      LET v == cog_check(ctx, cmd)
          d == GateDecision(ctx, cmd, FALSE)
          home == [ctx EXCEPT !.channel = control_text_channel_id]
      IN /\ d \in {"allow", "deny"}
         /\ v.audits > 0 => GateDecision(ctx, cmd, TRUE) = d
         /\ ctx.guild # allowed_guild_id => d = "deny" /\ v.audits = 1
         /\ (ctx.guild = allowed_guild_id /\ ctx.channel # control_text_channel_id)
               => IF cmd \in RecoveryBypass
                    THEN v.audits = 0 /\ d = GateDecision(home, cmd, FALSE)
                    ELSE d = "deny" /\ v.audits = 1

\* with no lockout in the way, the operator typed rrhome in the wrong guild or
\* outside the control channel: denied with one audit event
C11_Witness ==
  /\ bound
  /\ ~panic_locked
  /\ last.op = "rrhome"
  /\ last.res = "gate_denied"
  /\ last.audits = 1

\* C20: a watchdog tick calls the automatic panic only when the system is
\* bound, not panicked, not suspended, past the grace window, something is
\* active (radio, audio intent, or the player playing) and the player is not
\* connected to the registered voice channel; it then commits the panic or
\* queues on the mutex.  Any other tick changes neither panic_locked nor
\* suspended and starts no trigger.
C20_WatchdogTrigger ==
  [][\A trackBlocked \in BOOLEAN, discOk \in BOOLEAN :
       WatchdogTick(trackBlocked, discOk)
         => IF /\ bound /\ ~panic_locked /\ ~suspended /\ grace = 0
               /\ ((stream_url # NONE /\ station_name # NONE) \/ audio_intent_active \/ playing)
               /\ ~(botVc # NONE /\ botVc = allowed_voice_channel_id)
              THEN /\ UNCHANGED suspended
                   /\ IF autopanic_lock
                        THEN pc'[WatchdogTask] = "waiting" /\ UNCHANGED panic_locked
                        ELSE pc'[WatchdogTask] = "holding" /\ panic_locked'
                                /\ autopanic_reason' = "watchdog"
              ELSE UNCHANGED <<panic_locked, suspended, taskVars>>]_vars

\* the watchdog found a station active with the player away and panicked
C20_Witness ==
  /\ panic_locked
  /\ autopanic_reason = "watchdog"
  /\ pc[WatchdogTask] = "holding"
  /\ panic_resume_kind = "radio"

\* radio state and audio intent are cleared after the step
MediaCleared == stream_url' = NONE /\ station_name' = NONE /\ ~audio_intent_active'

\* C12: whatever deliveries are out of order, and whether the disconnect, the
\* summon and the plays work or not, a manual panic, the critical section of
\* an automatic panic, a manual suspend and an unlock that got past their
\* checks end without an exception for the caller and with their writes
\* done: panic_locked (panic), suspended (suspend), neither (unlock), and
\* for panic and suspend radio state and audio intent cleared.
C12_FlagsSurviveFailures ==
  [][/\ (last'.op = "rrpanic" /\ \E discOk \in BOOLEAN : rrpanic(Operator, discOk))
          => panic_locked' /\ MediaCleared /\ last'.res = "ok"
     /\ (/\ last'.op = "autopanic" /\ ~panic_locked /\ ~autopanic_lock
         /\ \E t \in Tasks, discOk \in BOOLEAN : AutopanicBody(t, "stop", discOk))
          => panic_locked' /\ MediaCleared /\ last'.res = "committed"
     /\ (last'.op = "rrsuspend" /\ \E discOk \in BOOLEAN : rrsuspend(Operator, discOk))
          => suspended' /\ MediaCleared /\ last'.res = "ok"
     /\ (/\ last'.op = "rrunlock"
         /\ \E mode \in {"", "resume", "radio"}, summonOk \in BOOLEAN :
              \E oks \in PlayOutcomesFor(mode, summonOk) : rrunlock(Operator, mode, summonOk, oks))
          => /\ ~panic_locked' /\ ~suspended'
             /\ last'.res \in {"summon_failed", "unlocked", "resumed", "nothing_resumed"}]_vars

\* no delivery works and the disconnect failed: the automatic panic is
\* committed all the same, with the player still connected
C12_Witness ==
  /\ delivers = [presence |-> FALSE, audit |-> FALSE, notify |-> FALSE]
  /\ last.op = "autopanic"
  /\ last.res = "committed"
  /\ panic_locked
  /\ botVc # NONE
  /\ ~_radio_active
  /\ ~audio_intent_active

\* ------------------------------------------------------------------------
\* Properties of the media state (SpecMedia, SpecUnlock)
\* ------------------------------------------------------------------------
\* C13: a play-result, restore-radio or home whose call to the external
\* player fails, and an unlock-with-resume whose summon or whose every play
\* fails, leave radio state, audio intent and the restore memory as they were
C13_PlayerFailureLeavesMedia ==
  [][(\/ \E index \in 1..2 : playstation(Operator, index, FALSE)
      \/ rrrestore(Operator, FALSE)
      \/ rrhome(Operator, FALSE)
      \/ rrunlock(Operator, "resume", FALSE, AllOk)
      \/ rrunlock(Operator, "resume", TRUE, NoneOk))
       => UNCHANGED <<mediaVars, memoryVars>>]_vars

\* C14: radio active and audio intent active never hold together
C14_MediaExclusive == ~(_radio_active /\ audio_intent_active)

\* C37: while a bound system is Panicked and no panic is in flight, radio
\* state and audio intent are both inactive
C37_PanickedMediaNeither ==
  (bound /\ panic_locked /\ \A t \in Tasks : pc[t] = "idle")
    => (~_radio_active /\ ~audio_intent_active)

\* C38: when no operation is under way the snapshot is of one piece: kind
\* radio with a station name and URL and no query, kind external with a query
\* and no station, or nothing at all
C38_SnapshotConsistent ==
  (\A t \in Tasks : pc[t] = "idle") =>
    \/ /\ panic_resume_kind = "radio"
       /\ panic_resume_station_name # NONE /\ panic_resume_station_url # NONE
       /\ panic_resume_youtube_query = NONE
    \/ /\ panic_resume_kind = "youtube"
       /\ panic_resume_youtube_query # NONE
       /\ panic_resume_station_name = NONE /\ panic_resume_station_url = NONE
    \/ Snapshot = NoSnapshot

\* C15: while the posture stays Panicked the snapshot stays what it was
C15_SnapshotOnce == [][(panic_locked /\ panic_locked') => UNCHANGED snapshotVars]_vars

\* the replay targets of the resume chain in the order of the spec, as
\* <<kind, name, text played>>: snapshot external, snapshot radio, memory
\* query, memory station
ResumeTargets ==
  (IF panic_resume_kind = "youtube" /\ panic_resume_youtube_query # NONE
     THEN <<<<"external", NONE, panic_resume_youtube_query>>>> ELSE <<>>)
  \o (IF panic_resume_kind = "radio" /\ panic_resume_station_name # NONE /\ panic_resume_station_url # NONE
        THEN <<<<"radio", panic_resume_station_name, panic_resume_station_url>>>> ELSE <<>>)
  \o (IF last_youtube_query # NONE THEN <<<<"external", NONE, last_youtube_query>>>> ELSE <<>>)
  \o (IF last_station_name # NONE /\ last_station_stream_url # NONE
        THEN <<<<"radio", last_station_name, last_station_stream_url>>>> ELSE <<>>)

\* how many targets are tried when the plays answer oks: up to the first that works
Tried(targets, oks) ==
  IF \E i \in 1..Len(targets) : oks[i]
    THEN CHOOSE i \in 1..Len(targets) : oks[i] /\ \A j \in 1..(i - 1) : ~oks[j]
    ELSE Len(targets)

\* C17: the resume chain plays its targets in order up to the first play that
\* works, and the media state is then that target alone; when no play works
\* it reports that nothing resumed and the media state is empty
C17_ResumeChain ==
  [][\A mode \in {"resume", "full"}, oks \in PlayOutcomes :
       (last'.op = "rrunlock" /\ rrunlock(Operator, mode, TRUE, oks))
         => LET T == ResumeTargets
                k == Tried(T, oks)
            IN /\ last'.calls = <<Call("summon", "")>> \o [i \in 1..k |-> Call("play", T[i][3])]
               /\ IF k > 0 /\ oks[k]
                    THEN /\ last'.res = "resumed"
                         /\ IF T[k][1] = "external"
                              THEN audio_intent_active' /\ stream_url' = NONE /\ station_name' = NONE
                              ELSE /\ ~audio_intent_active'
                                   /\ station_name' = T[k][2] /\ stream_url' = T[k][3]
                    ELSE /\ last'.res = "nothing_resumed"
                         /\ ~audio_intent_active' /\ stream_url' = NONE /\ station_name' = NONE]_vars

\* C18: an unlock with no mode, with mode home, or with a mode it does not
\* know, once past its checks, clears panic_locked and suspended, calls the
\* player for the summon only (no summon for an unknown mode), never for a
\* play, and leaves radio state and audio intent as they were
C18_UnlockSafeByDefault ==
  [][\A mode \in {"", "home", "other"}, summonOk \in BOOLEAN, oks \in {AllOk, NoneOk} :
       (/\ last'.op = "rrunlock"
        /\ bound /\ _require_owner_in_allowed_vc(Operator) = "ok"
        /\ rrunlock(Operator, mode, summonOk, oks))
         => /\ ~panic_locked' /\ ~suspended'
            /\ last'.calls = IF mode = "other" THEN <<>> ELSE <<Call("summon", "")>>
            /\ \A i \in 1..Len(last'.calls) : last'.calls[i][1] # "play"
            /\ UNCHANGED mediaVars]_vars

\* a plain unlock with a station in the restore memory: the player was
\* summoned, nothing was played and nothing is active
C18_Witness ==
  /\ last.op = "rrunlock"
  /\ last.res = "unlocked"
  /\ last.calls = <<Call("summon", "")>>
  /\ last_station_name # NONE /\ last_station_stream_url # NONE
  /\ ~panic_locked /\ ~suspended
  /\ ~_radio_active /\ ~audio_intent_active

\* C19: with a station (N, U) in the restore memory, rrrestore past its
\* checks and the radio mode of rrunlock after its summon call the player
\* with stop and then with play U and nothing else; when the play works
\* radio is active as (N, U) and audio intent is inactive
C19_RestoreRadio ==
  [][/\ (/\ last'.op = "rrrestore" /\ last'.res \in {"ok", "play_failed"}
         /\ \E playOk \in BOOLEAN : rrrestore(Operator, playOk))
          => /\ last_station_name # NONE /\ last_station_stream_url # NONE
             /\ last'.calls = <<Call("stop", ""), Call("play", last_station_stream_url)>>
             /\ last'.res = "ok"
                  => /\ station_name' = last_station_name /\ stream_url' = last_station_stream_url
                     /\ ~audio_intent_active'
     /\ \A oks \in {AllOk, NoneOk} :
          (/\ last'.op = "rrunlock"
           /\ bound /\ _require_owner_in_allowed_vc(Operator) = "ok"
           /\ last_station_name # NONE /\ last_station_stream_url # NONE
           /\ rrunlock(Operator, "radio", TRUE, oks))
            => /\ last'.calls = <<Call("summon", ""), Call("stop", ""),
                                  Call("play", last_station_stream_url)>>
               /\ oks[1]
                    => /\ last'.res = "resumed"
                       /\ station_name' = last_station_name /\ stream_url' = last_station_stream_url
                       /\ ~audio_intent_active']_vars

\* after a query was played in the perimeter, rrrestore switched back to the
\* saved station
C19_Witness ==
  /\ last.op = "rrrestore"
  /\ last.res = "ok"
  /\ last.calls = <<Call("stop", ""), Call("play", last_station_stream_url)>>
  /\ last_youtube_query # NONE
  /\ station_name = last_station_name /\ stream_url = last_station_stream_url
  /\ ~audio_intent_active

\* C16: no manual panic runs while an automatic panic is in flight, and the
\* snapshot an automatic panic has written is the one of the media state
\* that was active when it started (here: a station)
C16_OnePanicInFlight ==
  /\ [][(bound /\ \E discOk \in BOOLEAN : rrpanic(Operator, discOk))
          => \A t \in Tasks : ~InFlight(t)]_vars
  /\ [](\A t \in Tasks :
          (pc[t] \in {"snapped", "flagged", "holding"} /\ hist.entered.radio)
            => Snapshot = [kind |-> "radio", name |-> hist.entered.name,
                           url |-> hist.entered.url, query |-> NONE])

\* C26: suspended falls only in a step of rrresume or rrunlock typed by the
\* owner while connected to the registered voice channel
C26_ResumeOnly ==
  [][(suspended /\ ~suspended')
       => /\ bound
          /\ \E ctx \in GateContexts :
               /\ _require_owner_in_allowed_vc(ctx) = "ok"
               /\ \/ rrresume(ctx)
                  \/ \E mode \in UnlockModes, summonOk \in BOOLEAN : rrunlock(ctx, mode, summonOk, AllOk)]_vars

\* the handlers that start with the operator-presence check, typed by ctx
PresenceChecked(ctx) ==
  \/ \E discOk \in BOOLEAN : rrsuspend(ctx, discOk)
  \/ rrresume(ctx)
  \/ \E mode \in UnlockModes, summonOk \in BOOLEAN : rrunlock(ctx, mode, summonOk, AllOk)
  \/ rrhome(ctx, TRUE)
  \/ rrcontrol(ctx, Operator.channel)
  \/ searchstations(ctx, <<StationN1, StationN2>>)
  \/ playstation(ctx, 1, TRUE)
  \/ rrrestore(ctx, TRUE)
  \/ stopstation(ctx)

\* C28: a player command typed outside the perimeter while no station is
\* set, audio intent is off and the player is not playing changes no posture
\* flag, no media state and no snapshot; a command stopped by the gate, or
\* by the operator-presence check of its handler, leaves panic_locked and
\* suspended as they were
C28_DeniedNeverEscalates ==
  [][/\ (/\ ~(RadioActiveOf(stream_url, station_name) \/ audio_intent_active \/ playing)
         /\ ~UNCHANGED <<postureVars, mediaVars, snapshotVars>>)
          => ~\E ctx \in GateContexts, name \in AudioNames, discOk \in BOOLEAN :
                ~_audio_cmd_is_allowed(ctx) /\ on_command(1, ctx, name, NONE, discOk)
     /\ ~UNCHANGED <<panic_locked, suspended>>
          => ~\E ctx \in GateContexts :
                \/ \E cmd \in OwnerCommands : GateDenied(cmd, ctx)
                \/ _require_owner_in_allowed_vc(ctx) # "ok" /\ PresenceChecked(ctx)]_vars

\* with a station playing, the operator typed rrhome from the other voice
\* channel: refused and audited, and the posture is still normal
C28_Witness ==
  /\ last.op = "rrhome"
  /\ last.res = "wrong_vc"
  /\ last.audits = 1
  /\ _radio_active
  /\ ~panic_locked /\ ~suspended

\* C29: after stopstation by the present operator, and after a stop or a
\* disconnect of the player typed in the perimeter, no station is set and
\* audio intent is off
C29_StopClearsMedia ==
  [][(\/ /\ _require_owner_in_allowed_vc(Operator) = "ok"
         /\ stopstation(Operator)
      \/ /\ _audio_cmd_is_allowed(Operator)
         /\ \E name \in AUDIO_STOP_ALIASES \cup AUDIO_DISCONNECT_ALIASES :
              on_command(1, Operator, name, NONE, TRUE))
       => MediaCleared]_vars

\* C30 as stated: after a manual suspend by the present operator the player
\* is disconnected from voice, whatever the disconnect call did
C30_SuspendDisconnects ==
  [][(last'.op = "rrsuspend" /\ \E discOk \in BOOLEAN : rrsuspend(Operator, discOk))
       => botVc' = NONE]_vars

\* C30: a manual suspend by the present operator sets suspended and the
\* reason, clears radio state and audio intent, leaves panic_locked, the
\* snapshot, the restore memory and the binding as they were, and
\* disconnects the player when the disconnect call works; when that call
\* fails the failure is swallowed and the player stays where it was
C30_ManualSuspend ==
  [][\A discOk \in BOOLEAN :
       (last'.op = "rrsuspend" /\ rrsuspend(Operator, discOk))
         => /\ suspended' /\ suspend_reason' = "manual"
            /\ MediaCleared
            /\ botVc' = IF discOk THEN NONE ELSE botVc
            /\ UNCHANGED <<panic_locked, autopanic_reason, snapshotVars, memoryVars, bindingVars>>]_vars

\* suspended by hand with a station in the restore memory: the player is
\* out of voice, nothing is active, no hard lock and no snapshot
C30_Witness ==
  /\ last.op = "rrsuspend"
  /\ last.res = "ok"
  /\ suspended /\ suspend_reason = "manual"
  /\ botVc = NONE
  /\ ~_radio_active /\ ~audio_intent_active
  /\ last_station_name # NONE
  /\ ~panic_locked
  /\ Snapshot = NoSnapshot

\* the store as registered by __init__
StoreDefaults ==
  /\ ~bound
  /\ allowed_guild_id = NONE /\ control_text_channel_id = NONE /\ allowed_voice_channel_id = NONE
  /\ bound_owner_user_id = NONE
  /\ panic_locked /\ autopanic_enabled /\ autopanic_reason = NONE
  /\ ~suspended /\ suspend_reason = NONE /\ hard_mode
  /\ ~_radio_active /\ ~audio_intent_active
  /\ Snapshot = NoSnapshot
  /\ dj_user_id = NONE

\* C10: while no binding exists the gate lets through rrbind and rrstatus of
\* the owner and nothing else; the store is then as registered, with bound
\* false and panic_locked true; and the store leaves that state only in a
\* step of rrbind that binds.
C10_UnboundFailClosed ==
  /\ [](~bound =>
          /\ StoreDefaults
          /\ \A ctx \in GateContexts, cmd \in OwnerCommands :
                cog_check(ctx, cmd).pass <=> (is_owner(ctx.author) /\ cmd \in {"rrbind", "rrstatus"}))
  /\ [][(~bound /\ storeVars' # storeVars)
          => bound' /\ \E ctx \in GateContexts : ctx.voice # NONE /\ rrbind(ctx)]_vars

\* before any binding the operator typed rrhome: denied, nothing changed
C10_Witness ==
  /\ ~bound
  /\ panic_locked
  /\ last.op = "rrhome"
  /\ last.res = "gate_denied"

\* C6: a control action typed by the operator in the registered guild while
\* connected to the other voice channel is denied: posture, media state,
\* snapshot and binding are unchanged, and one audit event is emitted
C6_WrongVoiceDenied ==
  [][(bound /\ (ControlAction(OperatorAway) \/ ControlDenied(OperatorAway)))
       => /\ UNCHANGED <<postureVars, mediaVars, snapshotVars, bindingVars>>
          /\ last'.audits = 1]_vars

====
